---- MODULE Spec2Model ----
(***************************************************************************)
(* Terrain LOD selection of the InstancingAndCulling sample                *)
(* (TerrainQuadTree.cpp, TerrainApp.cpp).                                  *)
(*                                                                         *)
(* Numbers.  World coordinates are integers (world units).  A distance is  *)
(* carried as its square, because sqrtf is strictly increasing on the      *)
(* non-negative reals and every use of a distance in the code is a         *)
(* comparison.  The ring radii mTerrainSize * 0.10f and * 0.25f are kept   *)
(* in tenths of a world unit (51.2 is 512 tenths).  UV values are kept in  *)
(* quarters (1.0f is 4, 0.5f is 2, 0.25f is 1).                            *)
(***************************************************************************)
EXTENDS Integers, Sequences, FiniteSets, TLC

VARIABLES
    treeReady,          \* TerrainQuadTree::Initialize has run
    mTerrainSize,       \* TerrainQuadTree::mTerrainSize
    mTerrainHeight,     \* TerrainQuadTree::mTerrainHeight
    mLevelDistance,     \* TerrainQuadTree::mLevelDistance[3], in tenths
    camPos,             \* mCamera position, <<x, y, z>>
    camHeading,         \* mCamera look direction, a quarter turn 0..3
    selCameraPos,       \* cameraPos argument of the last SelectTiles call
    selFrustum,         \* worldFrustum argument of the last SelectTiles call
    selCellLOD,         \* the local array cellLOD of the last SelectTiles call
    mVisibleTiles,      \* TerrainApp::mVisibleTiles
    mTileInstances,     \* records written this frame to the instance buffer
    mCurrFrameResourceIndex, \* TerrainApp::mCurrFrameResourceIndex
    frameStep,          \* what the message loop runs next: "update" or "draw"
    uploadBuffer,       \* index of the instance buffer the upload loop wrote to
    frameDraw,          \* the draw call DrawTerrain issued in the frame in progress
    texPhase,           \* position in TerrainApp::Initialize (texture part)
    mTextures,          \* TerrainApp::mTextures, name -> Texture
    mHeightMapNames,    \* TerrainApp::mHeightMapNames
    mDiffuseMapNames,   \* TerrainApp::mDiffuseMapNames
    mNormalMapNames,    \* TerrainApp::mNormalMapNames
    srvHeap,            \* mSrvDescriptorHeap, slot -> descriptor
    mSculptMapSrvIndex, \* TerrainApp::mSculptMapSrvIndex
    mSculptMapUavIndex, \* TerrainApp::mSculptMapUavIndex
    currentLevel,       \* Variant A: the one level of the whole terrain
    switchCooldown,     \* Variant A: time left before another switch, in tenths of a second
    frameDistance,      \* Variant A: the distance given to the last frame
    frameDt,            \* Variant A: the elapsed time given to the last frame
    sinceSwitch,        \* time elapsed since the last change of level (capped)
    changeGap,          \* time between the last two changes of level (capped)
    enteredAt,          \* the distance at which currentLevel was entered (0: never)
    enteredFrom,        \* the level currentLevel was entered from (-1: never)
    enteredFromAt,      \* the distance at which that level had been entered (0: never)
    mScreenHeight,      \* Variant B2: TerrainQuadTree::mScreenHeight, in units of 144 pixels
    mRootBuilt,         \* Variant B2: mRoot holds the tree BuildTree made
    sseCameraPos,       \* Variant B2: cameraPos of the last SelectTiles
    sseFrustum,         \* Variant B2: worldFrustum of the last SelectTiles
    sseTiles,           \* Variant B2: the tiles the last SelectTiles put out
    mGeoVertices,       \* the vertex buffer of mGeometries["terrainPatchGeo"]
    mGeoIndices,        \* the index buffer of mGeometries["terrainPatchGeo"]
    geoPhase,           \* the loop of BuildTerrainGeometry that runs next
    geoRow,             \* the pass of that loop that runs next (z, or the edge)
    geoIdx,             \* idx, the running write position of the index loops
    mSculptMode,        \* TerrainApp::mSculptMode
    mSculpting,         \* TerrainApp::mSculpting
    pKeyWasDown,        \* the static pKeyWasDown of OnKeyboardInput
    lmbDown,            \* the left mouse button is physically held down
    mSculptBrushCB,     \* element 0 of the upload buffer mSculptBrushCB
    gpuPhase,           \* position in TerrainApp::Initialize (GPU resources)
    mSculptMapState,    \* state of mSculptMap left by the last recorded barrier
    listStartState,     \* state of mSculptMap when mCommandList was reset
    mCommandList,       \* what mCommandList recorded since its last Reset
    mCurrentFence,      \* D3DApp::mCurrentFence
    mFrameFence,        \* mFrameResources[i]->Fence
    completedFence,     \* mFence->GetCompletedValue()
    gpuQueue,           \* command lists submitted and not yet executed
    instanceStamp,      \* per instance buffer: the frame that last wrote it
    gpuRead             \* what the command list the GPU executed last has read

treeVars == <<treeReady, mTerrainSize, mTerrainHeight, mLevelDistance>>
frameVars == <<camPos, camHeading, selCameraPos, selFrustum, selCellLOD, mVisibleTiles,
              mTileInstances>>
drawVars == <<mCurrFrameResourceIndex, frameStep, uploadBuffer, frameDraw>>
texVars == <<texPhase, mTextures, mHeightMapNames, mDiffuseMapNames, mNormalMapNames,
             srvHeap, mSculptMapSrvIndex, mSculptMapUavIndex>>
lodVars == <<currentLevel, switchCooldown, frameDistance, frameDt, sinceSwitch, changeGap,
             enteredAt, enteredFrom, enteredFromAt>>
sseVars == <<mScreenHeight, mRootBuilt, sseCameraPos, sseFrustum, sseTiles>>
geoVars == <<mGeoVertices, mGeoIndices, geoPhase, geoRow, geoIdx>>
sculptVars == <<mSculptMode, mSculpting, pKeyWasDown, lmbDown, mSculptBrushCB>>
fenceVars == <<gpuPhase, mSculptMapState, listStartState, mCommandList, mCurrentFence,
               mFrameFence, completedFence, gpuQueue, instanceStamp, gpuRead>>
gpuVars == <<sculptVars, fenceVars>>
auxVars == <<lodVars, sseVars, geoVars, gpuVars>>
vars == <<treeVars, frameVars, drawVars, texVars, auxVars>>

(***************************************************************************)
(* Bounds of the model.                                                    *)
(***************************************************************************)
\* Camera x and z range over CamStep * (-CamMax .. CamMax).
CamMax == 9
\* Pitch of the grid of camera positions, in world units.
CamStep == 32
\* At most this many of the 63 texture files fail to load.
MaxFailedLoads == 1

(***************************************************************************)
(* Program constants.                                                      *)
(***************************************************************************)
GRID_SIZE == 4
gNumFrameResources == 3

\* The fence values the frames may reach.
MaxFence == 5

\* mBrushRadius and mBrushStrength as declared, in thousandths, and
\* mSculptBrushType as declared: the keys that change them stay up.
mBrushRadius == 50
mBrushStrength == 2
mSculptBrushType == 0
gTotalTileTextures == 21
InstanceCapacity == 64
TerrainHeight == 150
VisibilityMargin == 50
CameraLift == 100
NearZ == 1
FarZ == 3000
\* 1.0f in quarters, the unit of UVOffset and UVScale.
UVOne == 4

\* Terrain sizes handed to TerrainQuadTree::Initialize: the sample's 512, and
\* 640, whose ring radii 64 and 160 both fall on the grid of camera positions.
TerrainSizes == {512, 640}

Min(a, b) == IF a < b THEN a ELSE b
Abs(n) == IF n < 0 THEN -n ELSE n

(***************************************************************************)
(* TerrainQuadTree.cpp                                                     *)
(***************************************************************************)

\* The square of the value DistanceToBox returns.
\* DistanceToBox with the z axis tested on one side only: a camera in front of
\* the box (pz < minZ) counts as level with it.
DistanceToBoxOneSidedZ(px, pz, minX, minZ, maxX, maxZ) ==
    LET dx == IF px < minX THEN minX - px ELSE IF px > maxX THEN px - maxX ELSE 0
        dz == IF pz > maxZ THEN pz - maxZ ELSE 0
    IN  dx * dx + dz * dz

\* The distance to the centre of the box in place of the distance to the box.
DistanceToCenter(px, pz, minX, minZ, maxX, maxZ) ==
    LET dx == Abs(px - (minX + maxX) \div 2)
        dz == Abs(pz - (minZ + maxZ) \div 2)
    IN  dx * dx + dz * dz

DistanceToBox(px, pz, minX, minZ, maxX, maxZ) ==
    LET dx == IF px < minX THEN minX - px
              ELSE IF px > maxX THEN px - maxX ELSE 0
        dz == IF pz < minZ THEN minZ - pz
              ELSE IF pz > maxZ THEN pz - maxZ ELSE 0
    IN  dx * dx + dz * dz

\* dist <= mLevelDistance[level] in place of the strict comparison.
DistLessOrEqual(distSq, radiusTenths) == 100 * distSq <= radiusTenths * radiusTenths

\* dist < mLevelDistance[level], dist given by its square, the radius in tenths.
DistLess(distSq, radiusTenths) == 100 * distSq < radiusTenths * radiusTenths

\* mTerrainSize * 0.10f, * 0.25f, * 2.0f as tenths: the factor is given in percent.
ScaledDistance(size, percent) == (size * percent) \div 10

LevelDistances(size) ==
    [l \in 0..2 |-> IF l = 2 THEN ScaledDistance(size, 10)
                    ELSE IF l = 1 THEN ScaledDistance(size, 25)
                    ELSE ScaledDistance(size, 200)]

\* GetTextureIndex with the level-2 row stride of level 1.
GetTextureIndexRowOfTwo(level, nodeX, nodeZ) ==
    CASE level = 0 -> 0
      [] level = 1 -> 1 + nodeZ * 2 + nodeX
      [] level = 2 -> 5 + nodeZ * 2 + nodeX
      [] OTHER -> 0

GetTextureIndex(level, nodeX, nodeZ) ==
    CASE level = 0 -> 0
      [] level = 1 -> 1 + nodeZ * 2 + nodeX
      [] level = 2 -> 5 + nodeZ * 4 + nodeX
      [] OTHER -> 0

(***************************************************************************)
(* BoundingFrustum and BoundingBox.  A plane is <<nx, ny, nz, d>> with the  *)
(* normal pointing out of the frustum; a point p is outside the plane when *)
(* n.p + d > 0.  Contains tests the box against the six planes: DISJOINT   *)
(* when the box is wholly outside one plane, CONTAINS when it is wholly    *)
(* inside all of them, INTERSECTS otherwise.                               *)
(***************************************************************************)
PlaneDist(plane, c) == plane[1] * c[1] + plane[2] * c[2] + plane[3] * c[3] + plane[4]
PlaneRadius(plane, e) == Abs(plane[1]) * e[1] + Abs(plane[2]) * e[2] + Abs(plane[3]) * e[3]

BoxOutside(plane, box) == PlaneDist(plane, box.Center) > PlaneRadius(plane, box.Extents)
BoxInside(plane, box) == PlaneDist(plane, box.Center) < - PlaneRadius(plane, box.Extents)

FrustumContains(frustum, box) ==
    IF \E i \in DOMAIN frustum : BoxOutside(frustum[i], box) THEN "DISJOINT"
    ELSE IF \A i \in DOMAIN frustum : BoxInside(frustum[i], box) THEN "CONTAINS"
    ELSE "INTERSECTS"

\* The TerrainQuadTree object: its fields as one record.
QuadTree(size, height, levelDistance) ==
    [mTerrainSize |-> size, mTerrainHeight |-> height, mLevelDistance |-> levelDistance]

BlockBounds(q, minX, minZ, maxX, maxZ) ==
    [Center  |-> <<(minX + maxX) \div 2, q.mTerrainHeight \div 2, (minZ + maxZ) \div 2>>,
     Extents |-> <<(maxX - minX) \div 2, q.mTerrainHeight \div 2 + VisibilityMargin,
                   (maxZ - minZ) \div 2>>]

\* IsBlockVisible accepting only boxes wholly inside the frustum.
IsBlockVisibleContained(q, minX, minZ, maxX, maxZ, frustum) ==
    FrustumContains(frustum, BlockBounds(q, minX, minZ, maxX, maxZ)) = "CONTAINS"

IsBlockVisible(q, minX, minZ, maxX, maxZ, frustum) ==
    FrustumContains(frustum, BlockBounds(q, minX, minZ, maxX, maxZ)) # "DISJOINT"

\* Geometry of cell (cx, cz) of the 4x4 grid, as SelectTiles computes it.
CellSize(q) == q.mTerrainSize \div GRID_SIZE
HalfSize(q) == q.mTerrainSize \div 2
\* cellMinX counted from the origin: the half size is not subtracted.
CellMinXFromOrigin(q, cx) == cx * CellSize(q)
CellMinX(q, cx) == - HalfSize(q) + cx * CellSize(q)
CellMinZ(q, cz) == - HalfSize(q) + cz * CellSize(q)
CellMaxX(q, cx) == CellMinX(q, cx) + CellSize(q)
CellMaxZ(q, cz) == CellMinZ(q, cz) + CellSize(q)

\* The first loop with the results of its second and third branch exchanged.
CellLevelSwapped(q, camX, camZ, cx, cz) ==
    LET dist == DistanceToBox(camX, camZ, CellMinX(q, cx), CellMinZ(q, cz),
                              CellMaxX(q, cx), CellMaxZ(q, cz))
    IN  IF DistLess(dist, q.mLevelDistance[2]) THEN 2
        ELSE IF DistLess(dist, q.mLevelDistance[1]) THEN 0
        ELSE 1

\* cellLOD[cz][cx] of the first loop of SelectTiles.
CellLevel(q, camX, camZ, cx, cz) ==
    LET dist == DistanceToBox(camX, camZ, CellMinX(q, cx), CellMinZ(q, cz),
                              CellMaxX(q, cx), CellMaxZ(q, cz))
    IN  IF DistLess(dist, q.mLevelDistance[2]) THEN 2
        ELSE IF DistLess(dist, q.mLevelDistance[1]) THEN 1
        ELSE 0

\* XMMatrixScaling, XMMatrixTranslation, operator* and XMMatrixTranspose.
MatrixScaling(sx, sy, sz) ==
    <<<<sx, 0, 0, 0>>, <<0, sy, 0, 0>>, <<0, 0, sz, 0>>, <<0, 0, 0, 1>>>>
MatrixTranslation(tx, ty, tz) ==
    <<<<1, 0, 0, 0>>, <<0, 1, 0, 0>>, <<0, 0, 1, 0>>, <<tx, ty, tz, 1>>>>
MatrixMultiply(a, b) ==
    [i \in 1..4 |-> [j \in 1..4 |->
        a[i][1] * b[1][j] + a[i][2] * b[2][j] + a[i][3] * b[3][j] + a[i][4] * b[4][j]]]
MatrixTranspose(m) == [i \in 1..4 |-> [j \in 1..4 |-> m[j][i]]]

\* TileWorld with the product taken in the other order: the translation is
\* scaled along with the patch.
TileWorldTranslateFirst(cellSize, cellMinX, cellMinZ) ==
    MatrixTranspose(MatrixMultiply(MatrixTranslation(cellMinX, 0, cellMinZ),
                                   MatrixScaling(cellSize, 1, cellSize)))

TileWorld(cellSize, cellMinX, cellMinZ) ==
    MatrixTranspose(MatrixMultiply(MatrixScaling(cellSize, 1, cellSize),
                                   MatrixTranslation(cellMinX, 0, cellMinZ)))

\* The tile the level-2 loop pushes for cell (cx, cz).
Level2Tile(q, cx, cz) ==
    LET texIdx == GetTextureIndex(2, cx, cz)
    IN  [Level |-> 2, NodeX |-> cx, NodeZ |-> cz,
         WorldMinX |-> CellMinX(q, cx), WorldMinZ |-> CellMinZ(q, cz),
         WorldSize |-> CellSize(q),
         HeightMapIndex |-> texIdx, DiffuseMapIndex |-> texIdx, NormalMapIndex |-> texIdx,
         UVOffset |-> <<0, 0>>, UVScale |-> <<UVOne, UVOne>>,
         World |-> TileWorld(CellSize(q), CellMinX(q, cx), CellMinZ(q, cz))]

\* The level-1 tile with the two components of UVOffset exchanged.
Level1TileSwappedUV(q, cx, cz) ==
    LET texIdx == GetTextureIndex(1, cx \div 2, cz \div 2)
        localX == cx % 2
        localZ == cz % 2
    IN  [Level |-> 1, NodeX |-> cx \div 2, NodeZ |-> cz \div 2,
         WorldMinX |-> CellMinX(q, cx), WorldMinZ |-> CellMinZ(q, cz),
         WorldSize |-> CellSize(q),
         HeightMapIndex |-> texIdx, DiffuseMapIndex |-> texIdx, NormalMapIndex |-> texIdx,
         UVOffset |-> <<localZ * (UVOne \div 2), localX * (UVOne \div 2)>>,
         UVScale |-> <<UVOne \div 2, UVOne \div 2>>,
         World |-> TileWorld(CellSize(q), CellMinX(q, cx), CellMinZ(q, cz))]

\* The level-1 tile with its texture looked up by the cell's position inside the
\* node in place of the node's position.
Level1TileLocalIndex(q, cx, cz) ==
    LET localX == cx % 2
        localZ == cz % 2
        texIdx == GetTextureIndex(1, localX, localZ)
    IN  [Level |-> 1, NodeX |-> cx \div 2, NodeZ |-> cz \div 2,
         WorldMinX |-> CellMinX(q, cx), WorldMinZ |-> CellMinZ(q, cz),
         WorldSize |-> CellSize(q),
         HeightMapIndex |-> texIdx, DiffuseMapIndex |-> texIdx, NormalMapIndex |-> texIdx,
         UVOffset |-> <<localX * (UVOne \div 2), localZ * (UVOne \div 2)>>,
         UVScale |-> <<UVOne \div 2, UVOne \div 2>>,
         World |-> TileWorld(CellSize(q), CellMinX(q, cx), CellMinZ(q, cz))]

\* The tile the level-1 loop pushes for cell (cx, cz).
Level1Tile(q, cx, cz) ==
    LET texIdx == GetTextureIndex(1, cx \div 2, cz \div 2)
        localX == cx % 2
        localZ == cz % 2
    IN  [Level |-> 1, NodeX |-> cx \div 2, NodeZ |-> cz \div 2,
         WorldMinX |-> CellMinX(q, cx), WorldMinZ |-> CellMinZ(q, cz),
         WorldSize |-> CellSize(q),
         HeightMapIndex |-> texIdx, DiffuseMapIndex |-> texIdx, NormalMapIndex |-> texIdx,
         UVOffset |-> <<localX * (UVOne \div 2), localZ * (UVOne \div 2)>>,
         UVScale |-> <<UVOne \div 2, UVOne \div 2>>,
         World |-> TileWorld(CellSize(q), CellMinX(q, cx), CellMinZ(q, cz))]

\* The level-0 tile with cx in both components of UVOffset.
Level0TileSameAxis(q, cx, cz) ==
    LET texIdx == GetTextureIndex(0, 0, 0)
    IN  [Level |-> 0, NodeX |-> 0, NodeZ |-> 0,
         WorldMinX |-> CellMinX(q, cx), WorldMinZ |-> CellMinZ(q, cz),
         WorldSize |-> CellSize(q),
         HeightMapIndex |-> texIdx, DiffuseMapIndex |-> texIdx, NormalMapIndex |-> texIdx,
         UVOffset |-> <<cx * (UVOne \div 4), cx * (UVOne \div 4)>>,
         UVScale |-> <<UVOne \div 4, UVOne \div 4>>,
         World |-> TileWorld(CellSize(q), CellMinX(q, cx), CellMinZ(q, cz))]

\* The tile the level-0 loop pushes for cell (cx, cz).
Level0Tile(q, cx, cz) ==
    LET texIdx == GetTextureIndex(0, 0, 0)
    IN  [Level |-> 0, NodeX |-> 0, NodeZ |-> 0,
         WorldMinX |-> CellMinX(q, cx), WorldMinZ |-> CellMinZ(q, cz),
         WorldSize |-> CellSize(q),
         HeightMapIndex |-> texIdx, DiffuseMapIndex |-> texIdx, NormalMapIndex |-> texIdx,
         UVOffset |-> <<cx * (UVOne \div 4), cz * (UVOne \div 4)>>,
         UVScale |-> <<UVOne \div 4, UVOne \div 4>>,
         World |-> TileWorld(CellSize(q), CellMinX(q, cx), CellMinZ(q, cz))]

\* The body of the emission loop of a level, from the TerrainTile on.
LevelTile(q, level, cx, cz) ==
    IF level = 2 THEN Level2Tile(q, cx, cz)
    ELSE IF level = 1 THEN Level1Tile(q, cx, cz)
    ELSE Level0Tile(q, cx, cz)

\* LevelTile for every tree, level and cell of the model (tabulated).
LevelTiles ==
    [q \in {QuadTree(s, TerrainHeight, LevelDistances(s)) : s \in TerrainSizes} |->
        [level \in 0..2 |-> [cz \in 0..(GRID_SIZE - 1) |-> [cx \in 0..(GRID_SIZE - 1) |->
            LevelTile(q, level, cx, cz)]]]]

\* An emission loop that skips no cell.
SkipNoCell(cellLevel, level) == FALSE

\* The test that opens the body of each emission loop: skip cells of another level.
SkipCell(cellLevel, level) == cellLevel # level

\* The loop order of SelectTiles: cz outer, cx inner; cell number k is (cx, cz).
CellX(k) == k % GRID_SIZE
CellZ(k) == k \div GRID_SIZE
NumCells == GRID_SIZE * GRID_SIZE

\* The first loop of SelectTiles: the array cellLOD[cz][cx].
CellLOD(q, cameraPos) ==
    [cz \in 0..(GRID_SIZE - 1) |-> [cx \in 0..(GRID_SIZE - 1) |->
        CellLevel(q, cameraPos[1], cameraPos[3], cx, cz)]]

\* One emission loop of SelectTiles: the tiles it pushes, in order.
EmitLevel(q, level, cellLOD, frustum) ==
    LET Pushes(k) ==
            /\ ~ SkipCell(cellLOD[CellZ(k)][CellX(k)], level)
            /\ IsBlockVisible(q, CellMinX(q, CellX(k)), CellMinZ(q, CellZ(k)),
                              CellMaxX(q, CellX(k)), CellMaxZ(q, CellZ(k)), frustum)
        cells == SelectSeq([i \in 1..NumCells |-> i - 1], Pushes)
    IN  [i \in 1..Len(cells) |-> LevelTiles[q][level][CellZ(cells[i])][CellX(cells[i])]]

\* The emission loops in the order level 0, level 1, level 2.
EmitTilesCoarseFirst(q, cellLOD, frustum) ==
    EmitLevel(q, 0, cellLOD, frustum) \o EmitLevel(q, 1, cellLOD, frustum)
        \o EmitLevel(q, 2, cellLOD, frustum)

\* The three emission loops of SelectTiles: level 2, then level 1, then level 0.
EmitTiles(q, cellLOD, frustum) ==
    EmitLevel(q, 2, cellLOD, frustum) \o EmitLevel(q, 1, cellLOD, frustum)
        \o EmitLevel(q, 0, cellLOD, frustum)

\* SelectTiles without the clear: the list keeps what it held.
KeepTiles(outTiles) == outTiles

\* outTiles.clear()
Clear(outTiles) == << >>

(***************************************************************************)
(* TerrainApp.cpp: the camera, the per-frame update.                       *)
(***************************************************************************)

\* Look direction of a heading in the XZ plane, and the camera's right vector.
Forward(h) == CASE h = 0 -> <<0, 1>> [] h = 1 -> <<1, 0>> [] h = 2 -> <<0, -1>> [] OTHER -> <<-1, 0>>
Right(h) == <<Forward(h)[2], - Forward(h)[1]>>

\* A view-space plane <<a, b, c, d>> (x right, y up, z forward) in world space.
PlaneToWorld(p, origin, h) ==
    LET nx == p[1] * Right(h)[1] + p[3] * Forward(h)[1]
        ny == p[2]
        nz == p[1] * Right(h)[2] + p[3] * Forward(h)[2]
    IN  <<nx, ny, nz, p[4] - (nx * origin[1] + ny * origin[2] + nz * origin[3])>>

\* mCamFrustum, from the lens: near, far, right, left, top, bottom planes.  The
\* side slopes are 1/2 and the top and bottom slopes 2/5 (tan(pi/8) is 0.414).
CamFrustum ==
    << <<0, 0, -1, NearZ>>, <<0, 0, 1, - FarZ>>,
       <<2, 0, -1, 0>>, <<-2, 0, -1, 0>>,
       <<0, 5, -2, 0>>, <<0, -5, -2, 0>> >>

\* mCamFrustum.Transform(worldFrustum, invView)
WorldFrustum(origin, h) ==
    << PlaneToWorld(CamFrustum[1], origin, h), PlaneToWorld(CamFrustum[2], origin, h),
       PlaneToWorld(CamFrustum[3], origin, h), PlaneToWorld(CamFrustum[4], origin, h),
       PlaneToWorld(CamFrustum[5], origin, h), PlaneToWorld(CamFrustum[6], origin, h) >>

\* TerrainApp::Initialize puts the camera at x = 0, z = -mTerrainSize * 0.4f.
CamStartZ(size) == - ((size * 4) \div 10)

\* The camera walks in steps of CamStep from where Initialize put it.
CamCoords == {CamStep * k : k \in (- CamMax)..CamMax}
CamCoordsZ(size) == {CamStartZ(size) + CamStep * k : k \in (- CamMax)..CamMax}
\* Height of the camera: Initialize puts it at mTerrainHeight + 100.
CamY == TerrainHeight + CameraLift

\* The values the TerrainQuadTree object takes once initialized.
QuadTrees == {QuadTree(s, TerrainHeight, LevelDistances(s)) : s \in TerrainSizes}

\* What SelectTiles pushes in UpdateTerrainInstances for each tree, camera
\* position and heading of the model (tabulated: each entry is computed once).
CellLODs ==
    [q \in QuadTrees |-> [x \in CamCoords |-> [z \in CamCoordsZ(q.mTerrainSize) |->
        CellLOD(q, <<x, CamY, z>>)]]]
FrameTiles ==
    [q \in QuadTrees |-> [x \in CamCoords |-> [z \in CamCoordsZ(q.mTerrainSize) |->
      [h \in 0..3 |->
        EmitTiles(q, CellLODs[q][x][z], WorldFrustum(<<x, CamY, z>>, h))]]]]

\* The GPU record UpdateTerrainInstances builds from a tile.
InstanceOf(tile) ==
    [World |-> tile.World, HeightMapIndex |-> tile.HeightMapIndex,
     DiffuseMapIndex |-> tile.DiffuseMapIndex, NormalMapIndex |-> tile.NormalMapIndex,
     LODLevel |-> tile.Level, UVOffset |-> tile.UVOffset, UVScale |-> tile.UVScale]

\* The upload loop stopping one tile early (i + 1 < size).
UploadedInstancesOffByOne(tiles) ==
    [i \in 1..(IF Len(tiles) = 0 THEN 0
               ELSE IF Len(tiles) - 1 < InstanceCapacity THEN Len(tiles) - 1
               ELSE InstanceCapacity)
        |-> InstanceOf(tiles[i])]

\* The upload loop of UpdateTerrainInstances (i < size && i < 64): the records
\* it writes to slots 0, 1, ... of the frame's instance buffer.
UploadedInstances(tiles) ==
    [i \in 1..(IF Len(tiles) < InstanceCapacity THEN Len(tiles) ELSE InstanceCapacity)
        |-> InstanceOf(tiles[i])]

(***************************************************************************)
(* TerrainApp.cpp: textures and the descriptor heap.                       *)
(***************************************************************************)

\* The file of a tile's map, by folder and file stem; level 0 (folder 003) is a
\* single file and ignores the tile coordinates.
GetHeightMapPath(level, tileX, tileZ) ==
    IF level = 0 THEN <<"003", "Height_Out">>
    ELSE IF level = 1 THEN <<"002", "Height", tileZ, tileX>>
    ELSE <<"001", "Height", tileZ, tileX>>
GetDiffuseMapPath(level, tileX, tileZ) ==
    IF level = 0 THEN <<"003", "Weathering_Out">>
    ELSE IF level = 1 THEN <<"002", "Weathering", tileZ, tileX>>
    ELSE <<"001", "Weathering", tileZ, tileX>>
GetNormalMapPath(level, tileX, tileZ) ==
    IF level = 0 THEN <<"003", "Normals_Out">>
    ELSE IF level = 1 THEN <<"002", "Normals", tileZ, tileX>>
    ELSE <<"001", "Normals", tileZ, tileX>>

\* The (level, x, z) of the three loading blocks, in loading order (z outer).
LoadOrder ==
    << <<0, 0, 0>> >>
    \o [i \in 1..4 |-> <<1, (i - 1) % 2, (i - 1) \div 2>>]
    \o [i \in 1..16 |-> <<2, (i - 1) % 4, (i - 1) \div 4>>]

\* "h_" + std::to_string(idx), as the pair of the prefix and the number.
TexName(prefix, idx) == <<prefix, idx>>

\* The index a loading block names its textures by: the literal 0 for the
\* level-0 block, GetTextureIndex for the level-1 and level-2 blocks.
LoadIndex(t) == IF t[1] = 0 THEN 0 ELSE GetTextureIndex(t[1], t[2], t[3])

\* The Texture the lambda LoadTex stores under name.  The resource is the
\* content of the file, or null when CreateDDSTextureFromFile12 fails (the
\* failure is logged, not thrown).
LoadTex(path, name, failed) ==
    [Name |-> name, Filename |-> path,
     Resource |-> IF path \in failed THEN "null" ELSE path]

\* Loading block k: its three names, and the texture it stores under each.
BlockNames(k) ==
    {TexName("h", LoadIndex(LoadOrder[k])), TexName("d", LoadIndex(LoadOrder[k])),
     TexName("n", LoadIndex(LoadOrder[k]))}
BlockTexture(k, name, failed) ==
    LET t == LoadOrder[k]
    IN  IF name[1] = "h" THEN LoadTex(GetHeightMapPath(t[1], t[2], t[3]), name, failed)
        ELSE IF name[1] = "d" THEN LoadTex(GetDiffuseMapPath(t[1], t[2], t[3]), name, failed)
        ELSE LoadTex(GetNormalMapPath(t[1], t[2], t[3]), name, failed)

\* LoadTex returning on a failure before it stores the texture: mTextures
\* gets no entry under the name of a file that failed to load.
LoadedTexturesDropFailed(textures, failed) ==
    LET blocks == 1..Len(LoadOrder)
        LastBlock(n) == CHOOSE k \in blocks :
                            /\ n \in BlockNames(k)
                            /\ \A j \in blocks : j > k => n \notin BlockNames(j)
        stored == {n \in UNION {BlockNames(k) : k \in blocks} :
                      BlockTexture(LastBlock(n), n, failed).Resource # "null"}
    IN  [n \in (DOMAIN textures) \cup stored |->
            IF n \in stored THEN BlockTexture(LastBlock(n), n, failed) ELSE textures[n]]

\* mTextures after the loading blocks ran in order: mTextures[name] = tex
\* overwrites, so a name holds the texture of the last block that stored it.
LoadedTextures(textures, failed) ==
    LET blocks == 1..Len(LoadOrder)
        LastBlock(n) == CHOOSE k \in blocks :
                            /\ n \in BlockNames(k)
                            /\ \A j \in blocks : j > k => n \notin BlockNames(j)
    IN  [n \in (DOMAIN textures) \cup UNION {BlockNames(k) : k \in blocks} |->
            IF \E k \in blocks : n \in BlockNames(k)
               THEN BlockTexture(LastBlock(n), n, failed)
               ELSE textures[n]]

\* The names a channel's list receives: one push_back per block, in order.
PushedNames(prefix) == [k \in 1..Len(LoadOrder) |-> TexName(prefix, LoadIndex(LoadOrder[k]))]

\* The 63 texture files.
AllTexturePaths ==
    UNION {{GetHeightMapPath(LoadOrder[k][1], LoadOrder[k][2], LoadOrder[k][3]),
            GetDiffuseMapPath(LoadOrder[k][1], LoadOrder[k][2], LoadOrder[k][3]),
            GetNormalMapPath(LoadOrder[k][1], LoadOrder[k][2], LoadOrder[k][3])}
           : k \in 1..Len(LoadOrder)}

RECURSIVE SubsetsUpTo(_, _)
SubsetsUpTo(S, n) ==
    IF n = 0 THEN {{}}
    ELSE LET prev == SubsetsUpTo(S, n - 1)
         IN  prev \cup {s \cup {p} : s \in prev, p \in S}

\* The sets of files that fail to load in a run of the model.
FailedLoads == SubsetsUpTo(AllTexturePaths, MaxFailedLoads)

\* A descriptor of the new heap no view was created at.
Unwritten == [View |-> "unwritten", Resource |-> "null"]

\* srvHeapDesc.NumDescriptors
NumDescriptors == gTotalTileTextures * 3 + 2

\* The loop with hDescriptor moving on only after a view was created: the views
\* of the loaded textures packed from slot h on.
CreateViewsPacked(heap, h, names, textures) ==
    LET loaded == SelectSeq(names, LAMBDA n : textures[n].Resource # "null")
    IN  [i \in DOMAIN heap |->
            IF i >= h /\ i < h + Len(loaded)
               THEN [View |-> "SRV", Resource |-> textures[loaded[i - h + 1]].Resource]
               ELSE heap[i]]

\* One of the three loops of BuildDescriptorHeaps, entered with hDescriptor at
\* slot h: for each name a view of the texture's resource is created at
\* hDescriptor if the resource is not null, and hDescriptor moves on by one
\* either way.  The heap on leaving the loop; hDescriptor is then h + Len(names).
CreateViews(heap, h, names, textures) ==
    [i \in DOMAIN heap |->
        IF i >= h /\ i < h + Len(names) /\ textures[names[i - h + 1]].Resource # "null"
           THEN [View |-> "SRV", Resource |-> textures[names[i - h + 1]].Resource]
           ELSE heap[i]]

\* The slot of entry index of a channel's descriptor table, as Draw binds the
\* tables: height at the heap start, diffuse and normal each 21 further on.
TableSlot(channel, index) == channel * gTotalTileTextures + index

(***************************************************************************)
(* TerrainApp::BuildTerrainGeometry: the unit patch with its four skirts.  *)
(* Coordinates are floats of the form k / 64, kept as the integer k:       *)
(* step = 1.0f / (gridSize - 1) is exactly 1/64 for the grid of 65.        *)
(***************************************************************************)

mPatchGridSize == 65
FixedOne == 64
Step(gridSize) == FixedOne \div (gridSize - 1)

MainVertexCount(gridSize) == gridSize * gridSize
SkirtVertexCount(gridSize) == gridSize * 4
VertexCount(gridSize) == MainVertexCount(gridSize) + SkirtVertexCount(gridSize)
MainIndexCount(gridSize) == (gridSize - 1) * (gridSize - 1) * 6
SkirtIndexCount(gridSize) == (gridSize - 1) * 4 * 6
IndexCount(gridSize) == MainIndexCount(gridSize) + SkirtIndexCount(gridSize)

TerrainVertex(x, y, z, u, v) == [Pos |-> <<x, y, z>>, TexC |-> <<u, v>>]

\* vertices[i] as the loops fill it, i counted from 0.  The right skirt placed
\* on the left edge:
VertexAtRightOnLeft(gridSize, i) ==
    LET step == Step(gridSize)
        e == (i - MainVertexCount(gridSize)) \div gridSize
        k == (i - MainVertexCount(gridSize)) % gridSize
    IN  IF i < MainVertexCount(gridSize)
        THEN TerrainVertex((i % gridSize) * step, 0, (i \div gridSize) * step,
                           (i % gridSize) * step, (i \div gridSize) * step)
        ELSE CASE e = 0 -> TerrainVertex(k * step, - FixedOne, 0, k * step, 0)
               [] e = 1 -> TerrainVertex(k * step, - FixedOne, FixedOne, k * step, FixedOne)
               [] e = 2 -> TerrainVertex(0, - FixedOne, k * step, 0, k * step)
               [] OTHER -> TerrainVertex(0, - FixedOne, k * step, 0, k * step)

\* vertices[i] as the loops fill it, i counted from 0: the main grid, then the
\* skirt of the bottom (z = 0), top (z = 1), left (x = 0) and right (x = 1) edge.
VertexAt(gridSize, i) ==
    LET step == Step(gridSize)
        e == (i - MainVertexCount(gridSize)) \div gridSize
        k == (i - MainVertexCount(gridSize)) % gridSize
    IN  IF i < MainVertexCount(gridSize)
        THEN TerrainVertex((i % gridSize) * step, 0, (i \div gridSize) * step,
                           (i % gridSize) * step, (i \div gridSize) * step)
        ELSE CASE e = 0 -> TerrainVertex(k * step, - FixedOne, 0, k * step, 0)
               [] e = 1 -> TerrainVertex(k * step, - FixedOne, FixedOne, k * step, FixedOne)
               [] e = 2 -> TerrainVertex(0, - FixedOne, k * step, 0, k * step)
               [] OTHER -> TerrainVertex(FixedOne, - FixedOne, k * step, FixedOne, k * step)

\* The quads of the main grid with the lower row taken one vertex short.
MainQuadShortRow(gridSize, x, z) ==
    LET tl == z * gridSize + x
        tr == tl + 1
        bl == (z + 1) * (gridSize - 1) + x
        br == bl + 1
    IN  <<tl, bl, tr, tr, bl, br>>

\* The six indices of quad (x, z) of the main grid.
MainQuad(gridSize, x, z) ==
    LET tl == z * gridSize + x
        tr == tl + 1
        bl == (z + 1) * gridSize + x
        br == bl + 1
    IN  <<tl, bl, tr, tr, bl, br>>

\* The skirt quads with the bottom edge wound like the top edge.
SkirtQuadBottomLikeTop(gridSize, edge, k) ==
    LET skirtBase == MainVertexCount(gridSize)
    IN  CASE edge = 0 ->
               LET edgeL == k
                   edgeR == k + 1
                   skirtL == skirtBase + k
                   skirtR == skirtBase + k + 1
               IN  <<edgeL, skirtL, edgeR, edgeR, skirtL, skirtR>>
          [] edge = 1 ->
               LET edgeL == (gridSize - 1) * gridSize + k
                   edgeR == edgeL + 1
                   skirtL == skirtBase + gridSize + k
                   skirtR == skirtL + 1
               IN  <<edgeL, skirtL, edgeR, edgeR, skirtL, skirtR>>
          [] edge = 2 ->
               LET edgeB == k * gridSize
                   edgeT == (k + 1) * gridSize
                   skirtB == skirtBase + gridSize * 2 + k
                   skirtT == skirtB + 1
               IN  <<edgeB, skirtB, edgeT, edgeT, skirtB, skirtT>>
          [] OTHER ->
               LET edgeB == k * gridSize + (gridSize - 1)
                   edgeT == (k + 1) * gridSize + (gridSize - 1)
                   skirtB == skirtBase + gridSize * 3 + k
                   skirtT == skirtB + 1
               IN  <<skirtB, edgeB, skirtT, skirtT, edgeB, edgeT>>

\* The six indices of quad k of the skirt of an edge: 0 bottom, 1 top, 2 left,
\* 3 right.
SkirtQuad(gridSize, edge, k) ==
    LET skirtBase == MainVertexCount(gridSize)
    IN  CASE edge = 0 ->
               LET edgeL == k
                   edgeR == k + 1
                   skirtL == skirtBase + k
                   skirtR == skirtBase + k + 1
               IN  <<skirtL, edgeL, skirtR, skirtR, edgeL, edgeR>>
          [] edge = 1 ->
               LET edgeL == (gridSize - 1) * gridSize + k
                   edgeR == edgeL + 1
                   skirtL == skirtBase + gridSize + k
                   skirtR == skirtL + 1
               IN  <<edgeL, skirtL, edgeR, edgeR, skirtL, skirtR>>
          [] edge = 2 ->
               LET edgeB == k * gridSize
                   edgeT == (k + 1) * gridSize
                   skirtB == skirtBase + gridSize * 2 + k
                   skirtT == skirtB + 1
               IN  <<edgeB, skirtB, edgeT, edgeT, skirtB, skirtT>>
          [] OTHER ->
               LET edgeB == k * gridSize + (gridSize - 1)
                   edgeT == (k + 1) * gridSize + (gridSize - 1)
                   skirtB == skirtBase + gridSize * 3 + k
                   skirtT == skirtB + 1
               IN  <<skirtB, edgeB, skirtT, skirtT, edgeB, edgeT>>

\* indices[idx] as the loops fill it, idx counted from 0.
IndexAt(gridSize, idx) ==
    IF idx < MainIndexCount(gridSize)
    THEN LET quad == idx \div 6
         IN  MainQuad(gridSize, quad % (gridSize - 1), quad \div (gridSize - 1))[(idx % 6) + 1]
    ELSE LET quad == (idx - MainIndexCount(gridSize)) \div 6
         IN  SkirtQuad(gridSize, quad \div (gridSize - 1), quad % (gridSize - 1))[(idx % 6) + 1]

(***************************************************************************)
(* LodSelector, Variant A: one level for the whole terrain, switched with  *)
(* hysteresis and a cooldown.  Time is counted in tenths of a second,      *)
(* distances in world units.                                               *)
(***************************************************************************)

MaxDt == 4

SWITCH_DELAY == 3
D_1to2 == 250
D_2to1 == 350
D_0to1 == 550
D_1to0 == 650

\* Distances at, just below and just above each of the four thresholds.
Distances ==
    UNION {{d - 1, d, d + 1} : d \in {D_1to2, D_2to1, D_0to1, D_1to0}}

\* Histories of elapsed time are kept up to this value: SWITCH_DELAY or more.
TimeCap == SWITCH_DELAY + 1

\* Step 3 with the comparisons taken non-strict.
NextLevelNonStrict(level, distance) ==
    IF level = 0 THEN (IF distance <= D_0to1 THEN 1 ELSE 0)
    ELSE IF level = 1 THEN (IF distance >= D_1to0 THEN 0
                            ELSE IF distance <= D_1to2 THEN 2 ELSE 1)
    ELSE (IF distance >= D_2to1 THEN 1 ELSE 2)

\* Step 3: the level the thresholds of the current level lead to.
NextLevel(level, distance) ==
    IF level = 0 THEN (IF distance < D_0to1 THEN 1 ELSE 0)
    ELSE IF level = 1 THEN (IF distance > D_1to0 THEN 0
                            ELSE IF distance < D_1to2 THEN 2 ELSE 1)
    ELSE (IF distance > D_2to1 THEN 1 ELSE 2)

\* Step 1: the cooldown less the elapsed time, floored at 0.
Decremented(cooldown, dt) == IF cooldown > dt THEN cooldown - dt ELSE 0

\* Steps 1 to 4 without the debounce of step 2.
SelectLevelNoDebounce(level, cooldown, distance, dt) ==
    LET next == NextLevel(level, distance)
    IN  IF next # level THEN [currentLevel |-> next, switchCooldown |-> SWITCH_DELAY]
        ELSE [currentLevel |-> level, switchCooldown |-> Decremented(cooldown, dt)]

\* Steps 1 to 4 of a frame: the level and the cooldown after it.
SelectLevel(level, cooldown, distance, dt) ==
    LET cd == Decremented(cooldown, dt)
        next == NextLevel(level, distance)
    IN  IF cd > 0 THEN [currentLevel |-> level, switchCooldown |-> cd]
        ELSE IF next # level THEN [currentLevel |-> next, switchCooldown |-> SWITCH_DELAY]
        ELSE [currentLevel |-> level, switchCooldown |-> cd]

(***************************************************************************)
(* LodSelector, Variant B2: the quadtree of TerrainQuadTree.h, selected by *)
(* screen-space error.  A node is <<level, nodeX, nodeZ>>.  Geometric      *)
(* errors are counted in units of 12.5 and screen heights in units of 144  *)
(* pixels; tan(fovY / 2) is 2/5, as in the frustum.                        *)
(***************************************************************************)

mMaxScreenSpaceError == 4
mTerrainSizeDefault == 512
mGeometricError == [level \in 0..2 |-> CASE level = 0 -> 4 [] level = 1 -> 2 [] OTHER -> 1]
CullPadding == 20

\* An error is ErrorScale * Coeff / sqrt(DistSq) pixels:
\* 12.5 * 144 / (2 * tan(fovY / 2)) = 2250.
ErrorScale == (25 * 144 * 5) \div 8

\* The screen heights Initialize is given: 720 and 144 pixels.
ScreenHeights == {5, 1}

\* The camera positions SelectTiles is given.
SseCamX == {0, 1, 600}
SseCamY == {TerrainHeight \div 2, CamY}
SseCamZ == {-2200, -1000, -300, 0, 1}

\* The tree BuildTree makes: the root, its 4 children, their 16 children.
NodesOfLevel(level) ==
    {<<level, x, z>> : x \in 0..(2^level - 1), z \in 0..(2^level - 1)}
QuadTreeNodes == NodesOfLevel(0) \cup NodesOfLevel(1) \cup NodesOfLevel(2)
RootNode == <<0, 0, 0>>

HasChildren(node) == node[1] < 2

\* Children[0..3]: SW, SE, NW, NE.
Children(node) ==
    << <<node[1] + 1, 2 * node[2], 2 * node[3]>>,
       <<node[1] + 1, 2 * node[2] + 1, 2 * node[3]>>,
       <<node[1] + 1, 2 * node[2], 2 * node[3] + 1>>,
       <<node[1] + 1, 2 * node[2] + 1, 2 * node[3] + 1>> >>

\* World bounds of a node: the quadrant split at the midpoint of its parent.
SseNodeSize(node) == mTerrainSizeDefault \div (2^node[1])
NodeMinX(node) == - (mTerrainSizeDefault \div 2) + node[2] * SseNodeSize(node)
NodeMinZ(node) == - (mTerrainSizeDefault \div 2) + node[3] * SseNodeSize(node)

\* The bounds of a node, extruded by the terrain height and the padding.
NodeBounds(node) ==
    [Center  |-> <<NodeMinX(node) + SseNodeSize(node) \div 2, TerrainHeight \div 2,
                   NodeMinZ(node) + SseNodeSize(node) \div 2>>,
     Extents |-> <<SseNodeSize(node) \div 2, TerrainHeight \div 2 + CullPadding,
                   SseNodeSize(node) \div 2>>]

IsNodeVisible(node, frustum) == FrustumContains(frustum, NodeBounds(node)) # "DISJOINT"

\* The square of the distance from the camera to the centre of the bounds.
NodeCenters == [node \in QuadTreeNodes |-> NodeBounds(node).Center]
NodeDistSq(node, cameraPos) ==
    LET c == NodeCenters[node]
    IN  (cameraPos[1] - c[1]) * (cameraPos[1] - c[1])
        + (cameraPos[2] - c[2]) * (cameraPos[2] - c[2])
        + (cameraPos[3] - c[3]) * (cameraPos[3] - c[3])

\* The error with the distance clamped from above instead of from below.
CalculateScreenSpaceErrorMinClamp(node, screenHeight, cameraPos) ==
    LET distSq == NodeDistSq(node, cameraPos)
    IN  [Coeff  |-> mGeometricError[node[1]] * screenHeight,
         DistSq |-> IF distSq > 1 THEN 1 ELSE distSq]

\* error = geometricError[level] * screenHeight / (2 * distance * tan(fovY/2)),
\* the distance clamped to 1.0 at least.
CalculateScreenSpaceError(node, screenHeight, cameraPos) ==
    LET distSq == NodeDistSq(node, cameraPos)
    IN  [Coeff  |-> mGeometricError[node[1]] * screenHeight,
         DistSq |-> IF distSq < 1 THEN 1 ELSE distSq]

\* error > mMaxScreenSpaceError, and e < f, of errors in that form.
ErrorExceedsMax(e) ==
    ErrorScale * ErrorScale * e.Coeff * e.Coeff
        > mMaxScreenSpaceError * mMaxScreenSpaceError * e.DistSq
ErrorLess(e, f) == e.Coeff * e.Coeff * f.DistSq < f.Coeff * f.Coeff * e.DistSq

\* The tile SelectNode emits for a node: the node's own texture, whole.
NodeTile(node) ==
    LET texIdx == GetTextureIndex(node[1], node[2], node[3])
    IN  [Level |-> node[1], NodeX |-> node[2], NodeZ |-> node[3],
         WorldMinX |-> NodeMinX(node), WorldMinZ |-> NodeMinZ(node),
         WorldSize |-> SseNodeSize(node),
         HeightMapIndex |-> texIdx, DiffuseMapIndex |-> texIdx, NormalMapIndex |-> texIdx,
         World |-> TileWorld(SseNodeSize(node), NodeMinX(node), NodeMinZ(node))]

\* SelectNode refining a node whose error is within the budget and emitting
\* one whose error exceeds it.
SelectNodeInverted(node, screenHeight, cameraPos, frustum) ==
    LET Select[n \in QuadTreeNodes] ==
            IF ~ IsNodeVisible(n, frustum) THEN << >>
            ELSE IF /\ ~ ErrorExceedsMax(CalculateScreenSpaceError(n, screenHeight, cameraPos))
                    /\ HasChildren(n)
                 THEN Select[Children(n)[1]] \o Select[Children(n)[2]]
                      \o Select[Children(n)[3]] \o Select[Children(n)[4]]
                 ELSE <<NodeTile(n)>>
    IN  Select[node]

\* SelectNode going on after it has refined a node: the node's own tile is
\* appended after the tiles of its children.
SelectNodeNoReturn(node, screenHeight, cameraPos, frustum) ==
    LET Select[n \in QuadTreeNodes] ==
            IF ~ IsNodeVisible(n, frustum) THEN << >>
            ELSE IF /\ ErrorExceedsMax(CalculateScreenSpaceError(n, screenHeight, cameraPos))
                    /\ HasChildren(n)
                 THEN Select[Children(n)[1]] \o Select[Children(n)[2]]
                      \o Select[Children(n)[3]] \o Select[Children(n)[4]]
                      \o <<NodeTile(n)>>
                 ELSE <<NodeTile(n)>>
    IN  Select[node]

\* The top-down traversal from a node: the tiles it appends to outTiles, in
\* order.  Select[n] is the call SelectNode(n, cameraPos, frustum, outTiles).
SelectNode(node, screenHeight, cameraPos, frustum) ==
    LET Select[n \in QuadTreeNodes] ==
            IF ~ IsNodeVisible(n, frustum) THEN << >>
            ELSE IF /\ ErrorExceedsMax(CalculateScreenSpaceError(n, screenHeight, cameraPos))
                    /\ HasChildren(n)
                 THEN Select[Children(n)[1]] \o Select[Children(n)[2]]
                      \o Select[Children(n)[3]] \o Select[Children(n)[4]]
                 ELSE <<NodeTile(n)>>
    IN  Select[node]

\* SelectTiles for each screen height, camera position and heading.
SseCameras == {<<x, y, z>> : x \in SseCamX, y \in SseCamY, z \in SseCamZ}
SelectedTiles ==
    [screenHeight \in ScreenHeights |-> [c \in SseCameras |-> [h \in 0..3 |->
        SelectNode(RootNode, screenHeight, c, WorldFrustum(c, h))]]]

\* What a frame's command list holds of DrawTerrain before it ran, or after it
\* returned early: no DrawIndexedInstanced.  InstanceBuffer is the instance
\* buffer Draw binds to root parameter 2.
NoDraw(buffer) ==
    [Issued |-> FALSE, IndexCount |-> 0, InstanceCount |-> 0, InstanceBuffer |-> buffer]

\* mSculptBrushCB before any CopyData: the upload buffer as it was created.
NoBrushCB ==
    [BrushActive |-> 0, BrushPosUV |-> <<0, 0>>, BrushRadius |-> 0, BrushStrength |-> 0,
     TerrainSize |-> 0, BrushType |-> 0]

\* gpuRead before the GPU has executed any command list.
NothingRead ==
    [Fence |-> 0, Dispatch |-> FALSE, BrushWritten |-> NoBrushCB, BrushRead |-> NoBrushCB,
     Draw |-> FALSE, InstancesOf |-> 0]

Init ==
    /\ treeReady = FALSE
    /\ mTerrainSize = 512
    /\ mTerrainHeight = TerrainHeight
    /\ mLevelDistance = [l \in 0..2 |-> 0]
    /\ camPos = <<0, 0, 0>>
    /\ camHeading = 0
    /\ selCameraPos = <<0, 0, 0>>
    /\ selFrustum = << >>
    /\ selCellLOD = << >>
    /\ mVisibleTiles = << >>
    /\ mTileInstances = << >>
    /\ mCurrFrameResourceIndex = 0
    /\ frameStep = "update"
    /\ uploadBuffer = 0
    /\ frameDraw = NoDraw(0)
    /\ texPhase = "constructed"
    /\ mTextures = << >>
    /\ mHeightMapNames = << >>
    /\ mDiffuseMapNames = << >>
    /\ mNormalMapNames = << >>
    /\ srvHeap = << >>
    /\ mSculptMapSrvIndex = 0
    /\ mSculptMapUavIndex = 0
    /\ currentLevel = 2
    /\ switchCooldown = 0
    /\ frameDistance = 0
    /\ frameDt = 0
    /\ sinceSwitch = TimeCap
    /\ changeGap = TimeCap
    /\ enteredAt = 0
    /\ enteredFrom = -1
    /\ enteredFromAt = 0
    /\ mScreenHeight = 5
    /\ mRootBuilt = FALSE
    /\ sseCameraPos = <<0, 0, 0>>
    /\ sseFrustum = << >>
    /\ sseTiles = << >>
    /\ mGeoVertices = << >>
    /\ mGeoIndices = << >>
    /\ geoPhase = "mainVertices"
    /\ geoRow = 0
    /\ geoIdx = 0
    /\ mSculptMode = FALSE
    /\ mSculpting = FALSE
    /\ pKeyWasDown = FALSE
    /\ lmbDown = FALSE
    /\ mSculptBrushCB = NoBrushCB
    /\ gpuPhase = "constructed"
    /\ mSculptMapState = "NONE"
    /\ listStartState = "NONE"
    /\ mCommandList = << >>
    /\ mCurrentFence = 0
    /\ mFrameFence = << >>
    /\ completedFence = 0
    /\ gpuQueue = << >>
    /\ instanceStamp = << >>
    /\ gpuRead = NothingRead

\* TerrainApp::Initialize, the camera and the quadtree: the camera is placed
\* above the terrain, and TerrainQuadTree::Initialize(terrainWorldSize,
\* terrainMaxHeight, ...) stores the size and height and sets the ring radii.
Initialize ==
    /\ ~ treeReady
    /\ \E terrainWorldSize \in TerrainSizes :
          /\ camPos' = <<0, CamY, CamStartZ(terrainWorldSize)>>
          /\ mTerrainSize' = terrainWorldSize
          /\ mLevelDistance' = LevelDistances(terrainWorldSize)
    /\ mTerrainHeight' = TerrainHeight
    /\ treeReady' = TRUE
    /\ UNCHANGED <<camHeading, selCameraPos, selFrustum, selCellLOD, mVisibleTiles,
                   mTileInstances, drawVars, texVars, auxVars>>

\* mQuadTree as UpdateTerrainInstances finds it.
Tree == QuadTree(mTerrainSize, mTerrainHeight, mLevelDistance)

\* TerrainApp::Update: OnKeyboardInput walks the camera one step forward or back
\* (W, S) or leaves it; then UpdateTerrainInstances calls SelectTiles with the
\* camera's position and world frustum and uploads the instance records.
Update ==
    /\ treeReady
    /\ frameStep = "update"
    /\ mCurrFrameResourceIndex' = (mCurrFrameResourceIndex + 1) % gNumFrameResources
    /\ \E walk \in {-1, 0, 1} :
          LET x == camPos[1] + CamStep * walk * Forward(camHeading)[1]
              z == camPos[3] + CamStep * walk * Forward(camHeading)[2]
          IN  /\ x \in CamCoords
              /\ z \in CamCoordsZ(mTerrainSize)
              /\ camPos' = <<x, CamY, z>>
              /\ selCameraPos' = <<x, CamY, z>>
              /\ selFrustum' = WorldFrustum(<<x, CamY, z>>, camHeading)
              /\ selCellLOD' = CellLODs[Tree][x][z]
              /\ mVisibleTiles' = Clear(mVisibleTiles) \o FrameTiles[Tree][x][z][camHeading]
    /\ mTileInstances' = UploadedInstances(mVisibleTiles')
    /\ uploadBuffer' = mCurrFrameResourceIndex'
    /\ frameDraw' = NoDraw(mCurrFrameResourceIndex')
    /\ frameStep' = "draw"
    /\ UNCHANGED <<camHeading, treeVars, texVars, auxVars>>

\* geo->DrawArgs["patch"].IndexCount: the indices of the main grid and of the
\* four skirts.
PatchIndexCount == IndexCount(mPatchGridSize)

\* DrawTerrain without its early return: a draw call of zero instances.
DrawTerrainAlways(tiles, buffer) ==
    [Issued |-> TRUE, IndexCount |-> PatchIndexCount, InstanceCount |-> Len(tiles),
     InstanceBuffer |-> buffer]

\* TerrainApp::DrawTerrain: nothing when mVisibleTiles is empty; else one
\* DrawIndexedInstanced(indexCount, instanceCount, 0, 0, 0).
DrawTerrain(tiles, buffer) ==
    IF tiles = << >> THEN NoDraw(buffer)
    ELSE [Issued |-> TRUE, IndexCount |-> PatchIndexCount, InstanceCount |-> Len(tiles),
          InstanceBuffer |-> buffer]

\* TerrainApp::Draw, as far as the terrain goes: binds the instance buffer of
\* the current frame resource, calls DrawTerrain, closes and submits the
\* command list; the message loop then goes on to the next frame.
Draw ==
    /\ frameStep = "draw"
    /\ frameDraw' = DrawTerrain(mVisibleTiles, mCurrFrameResourceIndex)
    /\ frameStep' = "update"
    /\ UNCHANGED <<mCurrFrameResourceIndex, uploadBuffer, treeVars, frameVars, texVars,
                   auxVars>>

\* TerrainApp::OnMouseMove with the left button down: the camera turns.
OnMouseMove ==
    /\ frameStep = "update"
    /\ \E turn \in {1, 3} : camHeading' = (camHeading + turn) % 4
    /\ UNCHANGED <<camPos, selCameraPos, selFrustum, selCellLOD, mVisibleTiles,
                   mTileInstances, drawVars, treeVars, texVars, auxVars>>

\* TerrainApp::LoadAllTerrainTextures
LoadAllTerrainTextures ==
    /\ texPhase = "constructed"
    /\ \E failed \in FailedLoads : mTextures' = LoadedTextures(mTextures, failed)
    /\ mHeightMapNames' = mHeightMapNames \o PushedNames("h")
    /\ mDiffuseMapNames' = mDiffuseMapNames \o PushedNames("d")
    /\ mNormalMapNames' = mNormalMapNames \o PushedNames("n")
    /\ texPhase' = "texturesLoaded"
    /\ UNCHANGED <<srvHeap, mSculptMapSrvIndex, mSculptMapUavIndex, treeVars, frameVars,
                   drawVars, auxVars>>

\* TerrainApp::BuildDescriptorHeaps
BuildDescriptorHeaps ==
    /\ texPhase = "texturesLoaded"
    /\ LET h0 == [i \in 0..(NumDescriptors - 1) |-> Unwritten]
           h1 == CreateViews(h0, 0, mHeightMapNames, mTextures)
           h2 == CreateViews(h1, Len(mHeightMapNames), mDiffuseMapNames, mTextures)
           h3 == CreateViews(h2, Len(mHeightMapNames) + Len(mDiffuseMapNames),
                             mNormalMapNames, mTextures)
           hDescriptor == Len(mHeightMapNames) + Len(mDiffuseMapNames) + Len(mNormalMapNames)
       IN  srvHeap' = [h3 EXCEPT
                          ![hDescriptor] = [View |-> "SRV", Resource |-> "mSculptMap"],
                          ![hDescriptor + 1] = [View |-> "UAV", Resource |-> "mSculptMap"]]
    /\ mSculptMapSrvIndex' = gTotalTileTextures * 3
    /\ mSculptMapUavIndex' = gTotalTileTextures * 3 + 1
    /\ texPhase' = "heapsBuilt"
    /\ UNCHANGED <<mTextures, mHeightMapNames, mDiffuseMapNames, mNormalMapNames,
                   treeVars, frameVars, drawVars, auxVars>>

Next == Initialize \/ Update \/ Draw \/ OnMouseMove

Spec == Init /\ [][Next]_vars

\* The texture part of TerrainApp::Initialize.
NextTextures == LoadAllTerrainTextures \/ BuildDescriptorHeaps

SpecTextures == Init /\ [][NextTextures]_vars

\* A frame of Variant A, given a distance and an elapsed time.
SelectGlobalLevel ==
    \E distance \in Distances, dt \in 0..MaxDt :
        LET r == SelectLevel(currentLevel, switchCooldown, distance, dt)
            changed == r.currentLevel # currentLevel
            elapsed == Min(sinceSwitch + dt, TimeCap)
        IN  /\ currentLevel' = r.currentLevel
            /\ switchCooldown' = r.switchCooldown
            /\ frameDistance' = distance
            /\ frameDt' = dt
            /\ sinceSwitch' = IF changed THEN 0 ELSE elapsed
            /\ changeGap' = IF changed THEN elapsed ELSE changeGap
            /\ enteredAt' = IF changed THEN distance ELSE enteredAt
            /\ enteredFrom' = IF changed THEN currentLevel ELSE enteredFrom
            /\ enteredFromAt' = IF changed THEN enteredAt ELSE enteredFromAt
            /\ UNCHANGED <<gpuVars, treeVars, frameVars, drawVars, texVars, sseVars, geoVars>>

NextHysteresis == SelectGlobalLevel

SpecHysteresis == Init /\ [][NextHysteresis]_vars

\* Variant B2, TerrainQuadTree::Initialize(terrainWorldSize, terrainMaxHeight,
\* fovY, screenHeight): stores the screen height and builds the tree.
InitializeQuadTree ==
    /\ ~ mRootBuilt
    /\ \E screenHeight \in ScreenHeights : mScreenHeight' = screenHeight
    /\ mRootBuilt' = TRUE
    /\ UNCHANGED <<gpuVars, sseCameraPos, sseFrustum, sseTiles, treeVars, frameVars, drawVars,
                   texVars, lodVars, geoVars>>

\* Variant B2, TerrainQuadTree::SelectTiles(cameraPos, worldFrustum, outTiles):
\* clears outTiles and traverses the tree from the root.
SelectTilesByError ==
    /\ mRootBuilt
    /\ \E c \in SseCameras, h \in 0..3 :
          /\ sseCameraPos' = c
          /\ sseFrustum' = WorldFrustum(c, h)
          /\ sseTiles' = SelectedTiles[mScreenHeight][c][h]
    /\ UNCHANGED <<gpuVars, mScreenHeight, mRootBuilt, treeVars, frameVars, drawVars, texVars,
                   lodVars, geoVars>>

\* TerrainApp::BuildTerrainGeometry, loop by loop. The loops fill the local
\* vectors "vertices" and "indices", whose entries are VertexAt and IndexAt; the
\* geometry's own buffers are written once, when the vectors are copied at the end.
\* The main grid vertices: the pass z of the outer loop.
FillMainVertices ==
    /\ geoPhase = "mainVertices"
    /\ IF geoRow + 1 < mPatchGridSize
          THEN geoRow' = geoRow + 1 /\ geoPhase' = geoPhase
          ELSE geoRow' = 0 /\ geoPhase' = "skirtVertices"
    /\ UNCHANGED <<gpuVars, mGeoVertices, mGeoIndices, geoIdx, treeVars, frameVars, drawVars,
                   texVars, lodVars, sseVars>>

\* The skirt vertices: one of the four loops, bottom, top, left, right.
FillSkirtVertices ==
    /\ geoPhase = "skirtVertices"
    /\ IF geoRow < 3
          THEN geoRow' = geoRow + 1 /\ geoPhase' = geoPhase
          ELSE geoRow' = 0 /\ geoPhase' = "mainIndices"
    /\ UNCHANGED <<gpuVars, mGeoVertices, mGeoIndices, geoIdx, treeVars, frameVars, drawVars,
                   texVars, lodVars, sseVars>>

\* The main grid indices: the pass z of the outer loop.
FillMainIndices ==
    /\ geoPhase = "mainIndices"
    /\ IF geoRow + 1 < mPatchGridSize - 1
          THEN geoRow' = geoRow + 1 /\ geoPhase' = geoPhase
          ELSE geoRow' = 0 /\ geoPhase' = "skirtIndices"
    /\ geoIdx' = geoIdx + 6 * (mPatchGridSize - 1)
    /\ UNCHANGED <<gpuVars, mGeoVertices, mGeoIndices, treeVars, frameVars, drawVars,
                   texVars, lodVars, sseVars>>

\* The skirt indices: one of the four loops.
FillSkirtIndices ==
    /\ geoPhase = "skirtIndices"
    /\ IF geoRow < 3
          THEN geoRow' = geoRow + 1 /\ geoPhase' = geoPhase
          ELSE geoRow' = 0 /\ geoPhase' = "upload"
    /\ geoIdx' = geoIdx + 6 * (mPatchGridSize - 1)
    /\ UNCHANGED <<gpuVars, mGeoVertices, mGeoIndices, treeVars, frameVars, drawVars,
                   texVars, lodVars, sseVars>>

\* The vectors are copied into the buffers of mGeometries["terrainPatchGeo"] and the
\* submesh "patch" is entered in DrawArgs.
UploadGeometry ==
    /\ geoPhase = "upload"
    /\ mGeoVertices' = [i \in 1..VertexCount(mPatchGridSize) |->
                            VertexAt(mPatchGridSize, i - 1)]
    /\ mGeoIndices' = [i \in 1..IndexCount(mPatchGridSize) |->
                           IF i - 1 < geoIdx THEN IndexAt(mPatchGridSize, i - 1) ELSE 0]
    /\ geoPhase' = "built"
    /\ UNCHANGED <<gpuVars, geoRow, geoIdx, treeVars, frameVars, drawVars, texVars, lodVars, sseVars>>

NextGeometry ==
    \/ FillMainVertices \/ FillSkirtVertices \/ FillMainIndices \/ FillSkirtIndices
    \/ UploadGeometry

SpecGeometry == Init /\ [][NextGeometry]_vars

NextQuadTree == InitializeQuadTree \/ SelectTilesByError

SpecQuadTree == Init /\ [][NextQuadTree]_vars

(***************************************************************************)
(* Frame resources, the fence and the sculpt map.  The camera stands where *)
(* Initialize put it: the keys read here are P only, and the mouse.        *)
(***************************************************************************)

\* ResourceBarrier(Transition(mSculptMap, before, after)) in a command list.
Barrier(before, after) == [Op |-> "barrier", Before |-> before, After |-> after]

\* A command recorded between two barriers: it runs in the state the barrier
\* before it left.
Command(op) == [Op |-> op, Before |-> "", After |-> ""]

\* The state of mSculptMap after the commands of list, begun in state start.
RECURSIVE StateAfter(_, _)
StateAfter(list, start) ==
    IF list = << >> THEN start
    ELSE StateAfter(Tail(list), IF Head(list).Op = "barrier" THEN Head(list).After ELSE start)

\* TerrainApp::BuildSculptResources: mSculptMap is created in COMMON, filled
\* through an upload heap between two barriers, and mSculptBrushCB is created
\* with one element.
BuildSculptResources ==
    /\ gpuPhase = "constructed"
    /\ listStartState' = "COMMON"
    /\ mCommandList' = <<Barrier("COMMON", "COPY_DEST"), Command("copy"),
                         Barrier("COPY_DEST", "COMMON")>>
    /\ mSculptMapState' = StateAfter(mCommandList', "COMMON")
    /\ mSculptBrushCB' = NoBrushCB
    /\ gpuPhase' = "sculptBuilt"
    /\ UNCHANGED <<mSculptMode, mSculpting, pKeyWasDown, lmbDown, mCurrentFence,
                   mFrameFence, completedFence, gpuQueue, instanceStamp, gpuRead,
                   treeVars, frameVars, drawVars, texVars, lodVars, sseVars, geoVars>>

\* TerrainApp::BuildFrameResources: gNumFrameResources frame resources, none
\* submitted yet (Fence 0), and one instance buffer for each.
BuildFrameResources ==
    /\ gpuPhase = "sculptBuilt"
    /\ mFrameFence' = [i \in 0..(gNumFrameResources - 1) |-> 0]
    /\ instanceStamp' = [i \in 0..(gNumFrameResources - 1) |-> 0]
    /\ gpuPhase' = "framesBuilt"
    /\ UNCHANGED <<sculptVars, mSculptMapState, listStartState, mCommandList,
                   mCurrentFence, completedFence, gpuQueue, gpuRead,
                   treeVars, frameVars, drawVars, texVars, lodVars, sseVars, geoVars>>

\* Update's test before it touches the next frame resource, negated: the
\* frame resource was never submitted, or the GPU has passed its fence.
FrameResourceAlwaysReady(fence, completed) == fence >= 0
FrameResourceReady(fence, completed) == fence = 0 \/ completed >= fence

\* OnKeyboardInput, the P key: sculpt mode toggles when P goes down.
ToggledSculptMode(mode, pKeyIsDown, wasDown) ==
    IF pKeyIsDown /\ ~ wasDown THEN ~ mode ELSE mode

\* TerrainApp::Update with the camera keys up: OnKeyboardInput reads P, the
\* next frame resource becomes current once the GPU has passed its fence, and
\* UpdateTerrainInstances selects the tiles and writes them to the instance
\* buffer of that frame resource.
UpdateFrame ==
    /\ treeReady
    /\ gpuPhase = "framesBuilt"
    /\ frameStep = "update"
    /\ mCurrentFence < MaxFence
    /\ \E pKeyIsDown \in BOOLEAN :
          /\ mSculptMode' = ToggledSculptMode(mSculptMode, pKeyIsDown, pKeyWasDown)
          /\ pKeyWasDown' = pKeyIsDown
    /\ LET next == (mCurrFrameResourceIndex + 1) % gNumFrameResources
           x == camPos[1]
           z == camPos[3]
       IN  /\ FrameResourceReady(mFrameFence[next], completedFence)
           /\ mCurrFrameResourceIndex' = next
           /\ selCameraPos' = camPos
           /\ selFrustum' = WorldFrustum(camPos, camHeading)
           /\ selCellLOD' = CellLODs[Tree][x][z]
           /\ mVisibleTiles' = Clear(mVisibleTiles) \o FrameTiles[Tree][x][z][camHeading]
           /\ mTileInstances' = UploadedInstances(mVisibleTiles')
           /\ instanceStamp' = IF mVisibleTiles' = << >> THEN instanceStamp
                               ELSE [instanceStamp EXCEPT ![next] = mCurrentFence + 1]
           /\ uploadBuffer' = next
           /\ frameDraw' = NoDraw(next)
    /\ frameStep' = "draw"
    /\ UNCHANGED <<camPos, camHeading, mSculpting, lmbDown, mSculptBrushCB, gpuPhase,
                   mSculptMapState, listStartState, mCommandList, mCurrentFence,
                   mFrameFence, completedFence, gpuQueue, gpuRead,
                   treeVars, texVars, lodVars, sseVars, geoVars>>

\* RaycastTerrain: no hit, or a hit point within the terrain.
RaycastOutcomes(size) ==
    {[Hit |-> FALSE, X |-> 0, Z |-> 0],
     [Hit |-> TRUE, X |-> 0, Z |-> 0],
     [Hit |-> TRUE, X |-> size \div 4, Z |-> - (size \div 2)]}

\* u = max(0, min(1, (world + halfSize) / mTerrainSize)), in quarters.
BrushUV(world, size) ==
    LET u == (UVOne * (world + size \div 2)) \div size
    IN  IF u < 0 THEN 0 ELSE IF u > UVOne THEN UVOne ELSE u

\* The SculptBrushCB that ApplySculptBrush copies to element 0.
BrushCB(worldX, worldZ, size) ==
    [BrushActive |-> 1, BrushPosUV |-> <<BrushUV(worldX, size), BrushUV(worldZ, size)>>,
     BrushRadius |-> mBrushRadius, BrushStrength |-> mBrushStrength,
     TerrainSize |-> size, BrushType |-> mSculptBrushType]

\* Mutant of ApplySculptBrushCommands: the barrier back to COMMON is left out.
ApplySculptBrushNoRestore ==
    <<Barrier("COMMON", "UNORDERED_ACCESS"), Command("dispatch")>>

\* What ApplySculptBrush records: the sculpt map goes to UNORDERED_ACCESS, the
\* compute shader is dispatched, the sculpt map goes back to COMMON.
ApplySculptBrushCommands ==
    <<Barrier("COMMON", "UNORDERED_ACCESS"), Command("dispatch"),
      Barrier("UNORDERED_ACCESS", "COMMON")>>

\* What Draw records of the terrain: the sculpt map is readable by the vertex
\* shader while DrawTerrain draws, and goes back to COMMON.
DrawTerrainCommands(draw) ==
    <<Barrier("COMMON", "NON_PIXEL_SHADER_RESOURCE")>>
    \o (IF draw.Issued THEN <<Command("draw")>> ELSE << >>)
    \o <<Barrier("NON_PIXEL_SHADER_RESOURCE", "COMMON")>>

\* TerrainApp::Draw: the command list is reset; while mSculpting, a hit of
\* RaycastTerrain has ApplySculptBrush write the brush constants and record
\* its dispatch; the terrain is drawn with the instance buffer of the current
\* frame resource; the list is submitted and the fence value it will signal is
\* stored in the frame resource.
DrawFrame ==
    /\ gpuPhase = "framesBuilt"
    /\ frameStep = "draw"
    /\ frameDraw' = DrawTerrain(mVisibleTiles, mCurrFrameResourceIndex)
    /\ \E hit \in RaycastOutcomes(mTerrainSize) :
          LET applied == mSculpting /\ hit.Hit
              list == (IF applied THEN ApplySculptBrushCommands ELSE << >>)
                      \o DrawTerrainCommands(frameDraw')
          IN  /\ mSculptBrushCB' = IF applied THEN BrushCB(hit.X, hit.Z, mTerrainSize)
                                   ELSE mSculptBrushCB
              /\ mCommandList' = list
              /\ listStartState' = mSculptMapState
              /\ mSculptMapState' = StateAfter(list, mSculptMapState)
              /\ gpuQueue' = Append(gpuQueue,
                    [Fence |-> mCurrentFence + 1,
                     Dispatch |-> applied,
                     Brush |-> IF applied THEN mSculptBrushCB' ELSE NoBrushCB,
                     Draw |-> frameDraw'.Issued,
                     InstanceBuffer |-> mCurrFrameResourceIndex])
    /\ mCurrentFence' = mCurrentFence + 1
    /\ mFrameFence' = [mFrameFence EXCEPT ![mCurrFrameResourceIndex] = mCurrentFence + 1]
    /\ frameStep' = "update"
    /\ UNCHANGED <<mCurrFrameResourceIndex, uploadBuffer, mSculptMode, mSculpting,
                   pKeyWasDown, lmbDown, gpuPhase, completedFence, instanceStamp, gpuRead,
                   treeVars, frameVars, texVars, lodVars, sseVars, geoVars>>

\* The command queue after ExecuteCommandLists and Signal: the GPU executes
\* the oldest submitted list, reading the brush constants and the instance
\* buffer as they are now, and the fence reaches the list's value.
GpuExecute ==
    /\ gpuQueue # << >>
    /\ LET list == Head(gpuQueue)
       IN  /\ gpuRead' = [Fence |-> list.Fence,
                          Dispatch |-> list.Dispatch,
                          BrushWritten |-> list.Brush,
                          BrushRead |-> IF list.Dispatch THEN mSculptBrushCB ELSE NoBrushCB,
                          Draw |-> list.Draw,
                          InstancesOf |-> IF list.Draw THEN instanceStamp[list.InstanceBuffer]
                                          ELSE list.Fence]
           /\ completedFence' = list.Fence
    /\ gpuQueue' = Tail(gpuQueue)
    /\ UNCHANGED <<sculptVars, gpuPhase, mSculptMapState, listStartState, mCommandList,
                   mCurrentFence, mFrameFence, instanceStamp,
                   treeVars, frameVars, drawVars, texVars, lodVars, sseVars, geoVars>>

\* TerrainApp::OnMouseDown: a button goes down; btnState holds MK_LBUTTON when
\* the left button is down then.
OnMouseDown ==
    /\ gpuPhase = "framesBuilt"
    /\ frameStep = "update"
    /\ \E button \in {"left", "right"} :
          /\ button = "left" => ~ lmbDown
          /\ lmbDown' = (lmbDown \/ button = "left")
    /\ mSculpting' = IF mSculptMode /\ lmbDown' THEN TRUE ELSE mSculpting
    /\ UNCHANGED <<mSculptMode, pKeyWasDown, mSculptBrushCB, fenceVars,
                   treeVars, frameVars, drawVars, texVars, lodVars, sseVars, geoVars>>

\* TerrainApp::OnMouseUp: a button goes up.
OnMouseUp ==
    /\ gpuPhase = "framesBuilt"
    /\ frameStep = "update"
    /\ \E button \in {"left", "right"} :
          /\ button = "left" => lmbDown
          /\ lmbDown' = (lmbDown /\ button # "left")
    /\ mSculpting' = FALSE
    /\ UNCHANGED <<mSculptMode, pKeyWasDown, mSculptBrushCB, fenceVars,
                   treeVars, frameVars, drawVars, texVars, lodVars, sseVars, geoVars>>

\* TerrainApp::OnMouseMove, all three branches: in sculpt mode with the left
\* button down sculpting starts; with the left button down otherwise the
\* camera turns, here by less than a quarter turn, which leaves camHeading;
\* with the left button up sculpting stops.
OnMouseMoveButtons ==
    /\ gpuPhase = "framesBuilt"
    /\ frameStep = "update"
    /\ IF mSculptMode /\ lmbDown
       THEN /\ mSculpting' = TRUE
            /\ UNCHANGED camHeading
       ELSE IF lmbDown
            THEN UNCHANGED <<camHeading, mSculpting>>
            ELSE /\ mSculpting' = FALSE
                 /\ UNCHANGED camHeading
    /\ UNCHANGED <<camPos, selCameraPos, selFrustum, selCellLOD, mVisibleTiles,
                   mTileInstances, mSculptMode, pKeyWasDown, lmbDown, mSculptBrushCB,
                   fenceVars, treeVars, drawVars, texVars, lodVars, sseVars, geoVars>>

NextFrames ==
    \/ Initialize
    \/ BuildSculptResources
    \/ BuildFrameResources
    \/ UpdateFrame
    \/ DrawFrame
    \/ GpuExecute
    \/ OnMouseMoveButtons
    \/ OnMouseDown
    \/ OnMouseUp

SpecFrames == Init /\ [][NextFrames]_vars

(***************************************************************************)
(* Properties of the frames (checked under SpecFrames).                    *)
(***************************************************************************)

\* Initialize has built the sculpt map and the frame resources.
FramesRunning == gpuPhase = "framesBuilt"

\* mCommandList holds a command op.
Recorded(op) == \E i \in DOMAIN mCommandList : mCommandList[i].Op = op

\* The state of mSculptMap in which command i of mCommandList runs.
StateBefore(i) == StateAfter(SubSeq(mCommandList, 1, i - 1), listStartState)

\* C28: mSculpting is true only while the left mouse button is held down in
\* sculpt mode, and in every frame in which Draw applied the sculpt brush
\* mSculptMode is true.
C28_SculptingOnlyInSculptMode ==
    /\ mSculpting => (lmbDown /\ mSculptMode)
    /\ (FramesRunning /\ frameStep = "update" /\ Recorded("dispatch")) => mSculptMode

\* C27: every barrier recorded on the sculpt map names as its before-state
\* the state the barrier before it left; a command list begins and ends with
\* the map in COMMON; the copy runs in COPY_DEST, the compute dispatch in
\* UNORDERED_ACCESS and the terrain draw in NON_PIXEL_SHADER_RESOURCE.
C27_SculptMapProtocol ==
    gpuPhase # "constructed" =>
        /\ listStartState = "COMMON"
        /\ mSculptMapState = "COMMON"
        /\ StateAfter(mCommandList, listStartState) = mSculptMapState
        /\ \A i \in DOMAIN mCommandList :
              LET c == mCommandList[i]
              IN  /\ c.Op = "barrier" => c.Before = StateBefore(i)
                  /\ c.Op = "copy" => StateBefore(i) = "COPY_DEST"
                  /\ c.Op = "dispatch" => StateBefore(i) = "UNORDERED_ACCESS"
                  /\ c.Op = "draw" => StateBefore(i) = "NON_PIXEL_SHADER_RESOURCE"

\* A frame after a frame with a brush dispatch: its list holds a dispatch and
\* a draw, and the list before it held a dispatch too.
C27_Witness ==
    /\ FramesRunning
    /\ frameStep = "update"
    /\ Recorded("dispatch")
    /\ Recorded("draw")
    /\ Len(gpuQueue) >= 2
    /\ gpuQueue[Len(gpuQueue) - 1].Dispatch

\* C21: Update has produced and uploaded the tile list before Draw records
\* the frame; Draw binds the instance buffer Update wrote; Update writes an
\* instance buffer only when no submitted list that binds it is still to be
\* executed, the fence having passed the value stored with it; an instance
\* buffer holds its frame's records until the GPU has read them; at most
\* gNumFrameResources frames are in flight.
C21_NoInstanceDataRace ==
    FramesRunning =>
        /\ Len(gpuQueue) <= gNumFrameResources
        /\ frameStep = "draw" =>
              /\ mTileInstances = UploadedInstances(mVisibleTiles)
              /\ uploadBuffer = mCurrFrameResourceIndex
              /\ mFrameFence[uploadBuffer] <= completedFence
              /\ \A i \in DOMAIN gpuQueue : gpuQueue[i].InstanceBuffer # uploadBuffer
        /\ (frameStep = "update" /\ mCurrentFence > 0) =>
              /\ frameDraw = DrawTerrain(mVisibleTiles, uploadBuffer)
              /\ mFrameFence[uploadBuffer] = mCurrentFence
        /\ \A i \in DOMAIN gpuQueue :
              gpuQueue[i].Draw => instanceStamp[gpuQueue[i].InstanceBuffer] = gpuQueue[i].Fence
        /\ gpuRead.Draw => gpuRead.InstancesOf = gpuRead.Fence

\* Update has written an instance buffer that an earlier frame had used, with
\* two later frames still in flight.
C21_Witness ==
    /\ FramesRunning
    /\ frameStep = "draw"
    /\ mCurrentFence >= gNumFrameResources
    /\ instanceStamp[uploadBuffer] = mCurrentFence + 1
    /\ Len(gpuQueue) = gNumFrameResources - 1

\* C29: the brush constants a dispatch reads are the ones ApplySculptBrush
\* wrote in the frame that recorded it: mSculptBrushCB is not overwritten
\* while a list with a dispatch is still to be executed.
C29_BrushStableInFlight ==
    /\ \A i \in DOMAIN gpuQueue :
          gpuQueue[i].Dispatch => gpuQueue[i].Brush = mSculptBrushCB
    /\ gpuRead.Dispatch => gpuRead.BrushRead = gpuRead.BrushWritten

(***************************************************************************)
(* Properties of the texture table (checked under SpecTextures).           *)
(***************************************************************************)

\* The valid (level, x, z): level 0 with (0, 0), level 1 with x, z < 2, level 2
\* with x, z < 4.
ValidNodes ==
    {<<0, 0, 0>>} \cup {<<1, x, z>> : x \in 0..1, z \in 0..1}
                  \cup {<<2, x, z>> : x \in 0..3, z \in 0..3}

IndexOf(n) == GetTextureIndex(n[1], n[2], n[3])

Loaded == texPhase \in {"texturesLoaded", "heapsBuilt"}

\* C1: GetTextureIndex is injective on the valid (level, x, z); its 21 results
\* are exactly 0..20: level 0 gives 0, level 1 gives 1 + z*2 + x in 1..4, level
\* 2 gives 5 + z*4 + x in 5..20; and the index of (0, 0, 0) is 0.  The loader
\* applies it to every valid node, so the names it pushes are pairwise distinct.
C1_TextureIndexBijection ==
    /\ Cardinality(ValidNodes) = 21
    /\ \A a \in ValidNodes : \A b \in ValidNodes : a # b => IndexOf(a) # IndexOf(b)
    /\ {IndexOf(n) : n \in ValidNodes} = 0..20
    /\ \A n \in ValidNodes :
          /\ n[1] = 0 => IndexOf(n) = 0
          /\ n[1] = 1 => IndexOf(n) = 1 + n[3] * 2 + n[2] /\ IndexOf(n) \in 1..4
          /\ n[1] = 2 => IndexOf(n) = 5 + n[3] * 4 + n[2] /\ IndexOf(n) \in 5..20
    /\ GetTextureIndex(0, 0, 0) = 0
    /\ Loaded => \A i \in DOMAIN mHeightMapNames : \A j \in DOMAIN mHeightMapNames :
                    i # j => mHeightMapNames[i] # mHeightMapNames[j]

\* The loader has applied GetTextureIndex to the last level-2 node.
C1_Witness ==
    /\ texPhase = "texturesLoaded"
    /\ Len(mHeightMapNames) = 21
    /\ mHeightMapNames[21] = TexName("h", 20)

\* The name list, the name prefix and the file of channel c (0 height, 1
\* diffuse, 2 normal).
ChannelNames(c) ==
    IF c = 0 THEN mHeightMapNames ELSE IF c = 1 THEN mDiffuseMapNames ELSE mNormalMapNames
ChannelPrefix(c) == IF c = 0 THEN "h" ELSE IF c = 1 THEN "d" ELSE "n"
ChannelPath(c, n) ==
    IF c = 0 THEN GetHeightMapPath(n[1], n[2], n[3])
    ELSE IF c = 1 THEN GetDiffuseMapPath(n[1], n[2], n[3])
    ELSE GetNormalMapPath(n[1], n[2], n[3])

\* C2: after LoadAllTerrainTextures each of the three name lists has exactly 21
\* entries and entry i names the texture loaded from the file of the one
\* (level, x, z) whose GetTextureIndex is i; after BuildDescriptorHeaps the
\* view of entry i of channel c is at heap slot 21*c + i, the slot entry i of
\* the channel's descriptor table addresses (a file that failed to load leaves
\* its slot without a view, and moves no other view).
C2_TextureTableOrder ==
    /\ Loaded =>
          \A c \in 0..2 :
             /\ Len(ChannelNames(c)) = 21
             /\ \A n \in ValidNodes :
                   LET name == ChannelNames(c)[IndexOf(n) + 1]
                   IN  /\ name = TexName(ChannelPrefix(c), IndexOf(n))
                       /\ name \in DOMAIN mTextures
                       /\ mTextures[name].Filename = ChannelPath(c, n)
                       /\ mTextures[name].Resource \in {ChannelPath(c, n), "null"}
    /\ texPhase = "heapsBuilt" =>
          \A c \in 0..2 : \A n \in ValidNodes :
             LET tex == mTextures[ChannelNames(c)[IndexOf(n) + 1]]
                 slot == 21 * c + IndexOf(n)
             IN  /\ TableSlot(c, IndexOf(n)) = slot
                 /\ srvHeap[slot] = IF tex.Resource = "null" THEN Unwritten
                                    ELSE [View |-> "SRV", Resource |-> ChannelPath(c, n)]

\* The heap is built after a load in which one diffuse file failed: the views of
\* the last level-2 node are in place in all three channels.
C2_Witness ==
    /\ texPhase = "heapsBuilt"
    /\ \E n \in ValidNodes : mTextures[TexName("d", IndexOf(n))].Resource = "null"
    /\ srvHeap[20] = [View |-> "SRV", Resource |-> GetHeightMapPath(2, 3, 3)]
    /\ srvHeap[41] = [View |-> "SRV", Resource |-> GetDiffuseMapPath(2, 3, 3)]
    /\ srvHeap[62] = [View |-> "SRV", Resource |-> GetNormalMapPath(2, 3, 3)]

(***************************************************************************)
(* Properties of the tile selection (checked under Spec).  They are stated *)
(* on the inputs and results of the last SelectTiles call: selCameraPos,   *)
(* selFrustum, selCellLOD and mVisibleTiles.                               *)
(***************************************************************************)

SelectTilesCalled == selFrustum # << >>

\* SelectTiles has just returned: the state Update leaves.  Draw and OnMouseMove
\* write none of selCameraPos, selFrustum, selCellLOD and mVisibleTiles, so the
\* list of any later state of the frame is the list of this one.
SelectTilesReturned == SelectTilesCalled /\ frameStep = "draw"

GridCells == (0..(GRID_SIZE - 1)) \X (0..(GRID_SIZE - 1))

\* The world coordinate of grid line c (0..GRID_SIZE) of the terrain, which
\* spans [-mTerrainSize/2, mTerrainSize/2] in x and in z.
GridLine(c) == (c * mTerrainSize) \div GRID_SIZE - mTerrainSize \div 2

\* The positions in mVisibleTiles of the tiles placed on cell (cx, cz).
TilesOfCell(cx, cz) ==
    {i \in DOMAIN mVisibleTiles : /\ mVisibleTiles[i].WorldMinX = GridLine(cx)
                                  /\ mVisibleTiles[i].WorldMinZ = GridLine(cz)}

Emitted(cx, cz) == TilesOfCell(cx, cz) # {}

Max3(a, b, c) == IF a >= b /\ a >= c THEN a ELSE IF b >= c THEN b ELSE c

\* The square of the distance in the XZ plane from the camera of the last call
\* to the nearest point of the footprint of cell (cx, cz).
CamDistSq(cx, cz) ==
    LET dx == Max3(GridLine(cx) - selCameraPos[1], selCameraPos[1] - GridLine(cx + 1), 0)
        dz == Max3(GridLine(cz) - selCameraPos[3], selCameraPos[3] - GridLine(cz + 1), 0)
    IN  dx * dx + dz * dz

\* The level of a cell at distance dist: 2 when dist < 0.10 * mTerrainSize,
\* else 1 when dist < 0.25 * mTerrainSize, else 0.
RingLevel(distSq) ==
    IF 100 * distSq < mTerrainSize * mTerrainSize THEN 2
    ELSE IF 16 * distSq < mTerrainSize * mTerrainSize THEN 1
    ELSE 0

C4_LevelMonotoneInDistance ==
    SelectTilesReturned =>
       LET dist == [k \in 1..NumCells |-> CamDistSq(CellX(k - 1), CellZ(k - 1))] \o << >>
           level == [k \in 1..NumCells |-> selCellLOD[CellZ(k - 1)][CellX(k - 1)]] \o << >>
       IN  \A a \in 1..NumCells : \A b \in 1..NumCells :
              dist[a] <= dist[b] => level[a] >= level[b]

\* All three levels occur among the cells, and tiles of all three are emitted.
C4_Witness ==
    /\ SelectTilesReturned
    /\ \A l \in 0..2 : \E c \in GridCells : selCellLOD[c[2]][c[1]] = l
    /\ \A l \in 0..2 : \E i \in DOMAIN mVisibleTiles : mVisibleTiles[i].Level = l
    /\ \E a \in GridCells : \E b \in GridCells :
          /\ CamDistSq(a[1], a[2]) < CamDistSq(b[1], b[2])
          /\ selCellLOD[a[2]][a[1]] = selCellLOD[b[2]][b[1]]

\* The UV rectangle of a tile, in the units of UVOne: [x0, x1] x [y0, y1].
UVRect(t) ==
    [x0 |-> t.UVOffset[1], x1 |-> t.UVOffset[1] + t.UVScale[1],
     y0 |-> t.UVOffset[2], y1 |-> t.UVOffset[2] + t.UVScale[2]]
RectArea(r) == (r.x1 - r.x0) * (r.y1 - r.y0)
RectInUnitSquare(r) ==
    /\ 0 <= r.x0 /\ r.x0 < r.x1 /\ r.x1 <= UVOne
    /\ 0 <= r.y0 /\ r.y0 < r.y1 /\ r.y1 <= UVOne
InteriorsDisjoint(r, s) == r.x1 <= s.x0 \/ s.x1 <= r.x0 \/ r.y1 <= s.y0 \/ s.y1 <= r.y0

\* The rectangles the emission loop of a level gives a set of cells lie in the
\* unit square, have pairwise disjoint interiors and add up to its area: they
\* tile [0,1]^2.
TilesUnitSquare(q, cells, level) ==
    LET R(c) == UVRect(LevelTiles[q][level][c[2]][c[1]])
        RECURSIVE AreaSum(_)
        AreaSum(S) == IF S = {} THEN 0
                      ELSE LET c == CHOOSE c \in S : TRUE
                           IN  RectArea(R(c)) + AreaSum(S \ {c})
    IN  /\ \A c \in cells : RectInUnitSquare(R(c))
        /\ \A c \in cells : \A d \in cells : c # d => InteriorsDisjoint(R(c), R(d))
        /\ AreaSum(cells) = UVOne * UVOne

\* For each tree: the four cells of every level-1 node tile the unit square at
\* level 1, and the 16 cells tile it at level 0.
LevelRectanglesTile ==
    [q \in QuadTrees |->
        /\ \A n \in (0..1) \X (0..1) :
              TilesUnitSquare(q, {c \in GridCells : c[1] \div 2 = n[1] /\ c[2] \div 2 = n[2]}, 1)
        /\ TilesUnitSquare(q, GridCells, 0)]

\* C5: the UV rectangles SelectTiles gives the four cells of a level-1 node,
\* when they are level 1, tile [0,1]^2 with pairwise disjoint interiors, and so
\* do the rectangles of the 16 cells at level 0.  Every emitted tile of level 1
\* or 0 carries the rectangle of its cell, so no two emitted tiles that sample
\* one texture overlap in it.
C5_UVRectanglesTile ==
    SelectTilesReturned =>
       /\ LevelRectanglesTile[Tree]
       /\ \A c \in GridCells : \A i \in TilesOfCell(c[1], c[2]) :
             mVisibleTiles[i].Level \in {0, 1} =>
                UVRect(mVisibleTiles[i])
                   = UVRect(LevelTiles[Tree][mVisibleTiles[i].Level][c[2]][c[1]])
       /\ \A i \in DOMAIN mVisibleTiles : \A j \in DOMAIN mVisibleTiles :
             (i # j /\ mVisibleTiles[i].HeightMapIndex = mVisibleTiles[j].HeightMapIndex)
                => InteriorsDisjoint(UVRect(mVisibleTiles[i]), UVRect(mVisibleTiles[j]))

\* Two level-1 tiles of one node are emitted with different rectangles, next to
\* at least four level-0 tiles.
C5_Witness ==
    /\ SelectTilesReturned
    /\ \E i \in DOMAIN mVisibleTiles : \E j \in DOMAIN mVisibleTiles :
          /\ i # j
          /\ mVisibleTiles[i].Level = 1 /\ mVisibleTiles[j].Level = 1
          /\ mVisibleTiles[i].HeightMapIndex = mVisibleTiles[j].HeightMapIndex
          /\ mVisibleTiles[i].UVOffset # mVisibleTiles[j].UVOffset
    /\ Cardinality({i \in DOMAIN mVisibleTiles : mVisibleTiles[i].Level = 0}) >= 4

\* The side and the minimum corner of the footprint of node (nodeX, nodeZ) of a
\* level: the terrain split in 1, 2 or 4 along each axis.
NodesPerSide(level) == IF level = 0 THEN 1 ELSE IF level = 1 THEN 2 ELSE 4
NodeSize(level) == mTerrainSize \div NodesPerSide(level)
NodeMin(level, node) == node * NodeSize(level) - mTerrainSize \div 2

\* C6: an emitted tile has UVScale (1,1) at level 2, (0.5,0.5) at level 1 and
\* (0.25,0.25) at level 0, and its UV rectangle is the place of its cell's
\* footprint inside the footprint of the node whose texture it samples:
\* UVOffset = (cellMin - nodeMin) / nodeSize and UVScale = cellSize / nodeSize.
C6_UVMatchesFootprint ==
    SelectTilesReturned =>
       \A i \in DOMAIN mVisibleTiles :
          LET t == mVisibleTiles[i]
              nodeSize == NodeSize(t.Level)
          IN  /\ t.UVScale = IF t.Level = 2 THEN <<UVOne, UVOne>>
                             ELSE IF t.Level = 1 THEN <<UVOne \div 2, UVOne \div 2>>
                             ELSE <<UVOne \div 4, UVOne \div 4>>
              /\ t.UVOffset[1] * nodeSize = UVOne * (t.WorldMinX - NodeMin(t.Level, t.NodeX))
              /\ t.UVOffset[2] * nodeSize = UVOne * (t.WorldMinZ - NodeMin(t.Level, t.NodeZ))
              /\ t.UVScale[1] * nodeSize = UVOne * t.WorldSize
              /\ t.UVScale[2] * nodeSize = UVOne * t.WorldSize

\* Tiles of all three levels are emitted, one of level 1 in the far quadrant of
\* its node and one of level 0 off the terrain's minimum corner in x and z.
C6_Witness ==
    /\ SelectTilesReturned
    /\ \E i \in DOMAIN mVisibleTiles : mVisibleTiles[i].Level = 2
    /\ \E i \in DOMAIN mVisibleTiles :
          /\ mVisibleTiles[i].Level = 1
          /\ mVisibleTiles[i].UVOffset = <<UVOne \div 2, UVOne \div 2>>
    /\ \E i \in DOMAIN mVisibleTiles :
          /\ mVisibleTiles[i].Level = 0
          /\ mVisibleTiles[i].UVOffset[1] > 0
          /\ mVisibleTiles[i].UVOffset[2] > 0
          /\ mVisibleTiles[i].UVOffset[1] # mVisibleTiles[i].UVOffset[2]

\* C7: the tile emitted for cell (cx, cz) at level 2 has texture index
\* index(2, cx, cz) and NodeX = cx, NodeZ = cz; at level 1 index(1, cx/2, cz/2)
\* and NodeX = cx/2, NodeZ = cz/2; at level 0 index 0 and NodeX = NodeZ = 0.  Its
\* height, diffuse and normal index are the same number, in 0..20.
C7_TileTextureIndex ==
    SelectTilesReturned =>
       \A c \in GridCells : \A i \in TilesOfCell(c[1], c[2]) :
          LET t == mVisibleTiles[i]
              node == IF t.Level = 2 THEN c
                      ELSE IF t.Level = 1 THEN <<c[1] \div 2, c[2] \div 2>>
                      ELSE <<0, 0>>
          IN  /\ t.Level \in 0..2
              /\ t.NodeX = node[1]
              /\ t.NodeZ = node[2]
              /\ t.HeightMapIndex = GetTextureIndex(t.Level, node[1], node[2])
              /\ t.DiffuseMapIndex = t.HeightMapIndex
              /\ t.NormalMapIndex = t.HeightMapIndex
              /\ t.HeightMapIndex \in 0..20
              /\ t.Level = 0 => t.HeightMapIndex = 0

\* Tiles of all three levels are emitted, among them a level-1 tile of the last
\* level-1 node, texture 4.
C7_Witness ==
    /\ SelectTilesReturned
    /\ \A l \in 0..2 : \E i \in DOMAIN mVisibleTiles : mVisibleTiles[i].Level = l
    /\ \E i \in DOMAIN mVisibleTiles :
          /\ mVisibleTiles[i].Level = 1
          /\ mVisibleTiles[i].NodeX = 1 /\ mVisibleTiles[i].NodeZ = 1
          /\ mVisibleTiles[i].HeightMapIndex = 4

\* The eight corners of the culling box of cell (cx, cz): the footprint in x and
\* z, and in y the terrain's height range widened by the margin on both sides.
BoxCorners(cx, cz) ==
    {<<x, y, z>> : x \in {GridLine(cx), GridLine(cx + 1)},
                   y \in {- VisibilityMargin, mTerrainHeight + VisibilityMargin},
                   z \in {GridLine(cz), GridLine(cz + 1)}}

PointOutside(plane, p) == plane[1] * p[1] + plane[2] * p[2] + plane[3] * p[3] + plane[4] > 0

\* The box of the cell lies wholly outside one of the frustum's planes: the
\* containment test's DISJOINT.
Disjoint(cx, cz) ==
    \E k \in DOMAIN selFrustum : \A p \in BoxCorners(cx, cz) : PointOutside(selFrustum[k], p)

InFrustum(p) == \A k \in DOMAIN selFrustum : ~ PointOutside(selFrustum[k], p)

\* Probe points of the box of cell (cx, cz): on the vertical through the centre
\* of its footprint, at three heights of the terrain's range.
ProbePoints(cx, cz) ==
    {<<(GridLine(cx) + GridLine(cx + 1)) \div 2, y, (GridLine(cz) + GridLine(cz + 1)) \div 2>> :
        y \in {0, mTerrainHeight \div 2, mTerrainHeight}}

\* The box of the cell holds a point of the frustum.
HoldsFrustumPoint(cx, cz) == \E p \in ProbePoints(cx, cz) : InFrustum(p)

C9_SelectionIsPure ==
    /\ [](SelectTilesCalled =>
             mVisibleTiles = EmitTiles(Tree, CellLOD(Tree, selCameraPos), selFrustum))
    /\ [][(SelectTilesCalled /\ selCameraPos' = selCameraPos /\ selFrustum' = selFrustum
              /\ Tree' = Tree)
             => mVisibleTiles' = mVisibleTiles]_vars

\* A call has replaced a list of other tiles: the camera is not where the tree's
\* first call found it, and the list is not empty.
C9_Witness ==
    /\ SelectTilesCalled
    /\ selCameraPos # <<0, CamY, CamStartZ(mTerrainSize)>>
    /\ selCameraPos[1] # 0
    /\ Len(mVisibleTiles) >= 4
    /\ mVisibleTiles # FrameTiles[Tree][0][CamStartZ(mTerrainSize)][0]

\* C10: SelectTiles emits at most one tile per cell, 16 at most, which is within
\* the 64 records of a frame's instance buffer: the i < 64 bound of the upload
\* loop never drops a tile, and record i is built from tile i.
C10_SelectionFitsBuffer ==
    /\ NumCells = 16
    /\ NumCells <= InstanceCapacity
    /\ Len(mVisibleTiles) <= NumCells
    /\ Len(mTileInstances) = Len(mVisibleTiles)
    /\ \A i \in DOMAIN mVisibleTiles :
          /\ mTileInstances[i].World = mVisibleTiles[i].World
          /\ mTileInstances[i].LODLevel = mVisibleTiles[i].Level
          /\ mTileInstances[i].HeightMapIndex = mVisibleTiles[i].HeightMapIndex

\* All 16 cells are emitted and uploaded.
C10_Witness ==
    /\ Len(mVisibleTiles) = 16
    /\ Len(mTileInstances) = 16

\* The frame of the last Update has also been drawn.
FrameDrawn == SelectTilesCalled /\ frameStep = "update"

AllCellsDisjoint == \A c \in GridCells : Disjoint(c[1], c[2])

\* C11: when the frustum's containment test is DISJOINT for every one of the 16
\* cells, SelectTiles leaves the list empty, the upload loop writes no record,
\* and DrawTerrain returns without a draw call; the frame still completes: Draw
\* can run after such an Update and hands over to the next frame.
C11_EmptySelectionDrawsNothing ==
    (SelectTilesCalled /\ AllCellsDisjoint) =>
        /\ mVisibleTiles = << >>
        /\ mTileInstances = << >>
        /\ ~ frameDraw.Issued
        /\ frameDraw.InstanceCount = 0
        /\ frameStep = "draw" => ENABLED Draw

\* A frame whose camera saw no cell at all has been updated and drawn: the
\* second frame of the run.
C11_Witness ==
    /\ FrameDrawn
    /\ AllCellsDisjoint
    /\ mVisibleTiles = << >>
    /\ mCurrFrameResourceIndex = 2

\* The camera of the last call stands outside the terrain square in XZ.
CameraOutside ==
    \/ 2 * Abs(selCameraPos[1]) > mTerrainSize
    \/ 2 * Abs(selCameraPos[3]) > mTerrainSize

\* The square of the distance in XZ from that camera to the terrain square.
TerrainDistSq ==
    LET dx == Max3(GridLine(0) - selCameraPos[1], selCameraPos[1] - GridLine(GRID_SIZE), 0)
        dz == Max3(GridLine(0) - selCameraPos[3], selCameraPos[3] - GridLine(GRID_SIZE), 0)
    IN  dx * dx + dz * dz

C12_WitnessNear ==
    /\ SelectTilesReturned
    /\ CameraOutside
    /\ 16 * TerrainDistSq < mTerrainSize * mTerrainSize
    /\ \E i \in DOMAIN mVisibleTiles : mVisibleTiles[i].Level = 2
    /\ \E i \in DOMAIN mVisibleTiles : mVisibleTiles[i].Level = 0

\* The square of the XZ plane a tile covers when drawn: the image of the unit
\* patch [0,1]^2 under the tile's (transposed) world matrix.
Footprint(t) ==
    [x0 |-> t.World[1][4], x1 |-> t.World[1][4] + t.World[1][1],
     y0 |-> t.World[3][4], y1 |-> t.World[3][4] + t.World[3][3]]

CellSquare(cx, cz) ==
    [x0 |-> GridLine(cx), x1 |-> GridLine(cx + 1), y0 |-> GridLine(cz), y1 |-> GridLine(cz + 1)]

RECURSIVE FootprintArea(_)
FootprintArea(tiles) ==
    IF tiles = << >> THEN 0
    ELSE RectArea(Footprint(Head(tiles))) + FootprintArea(Tail(tiles))

AllCellsVisible == \A c \in GridCells : ~ Disjoint(c[1], c[2])

\* C19: in every result of SelectTiles each of the 16 cells has at most one
\* tile, of the one level the cell was given; every tile covers exactly the
\* square of one cell, so the footprints of two emitted tiles are distinct and
\* do not overlap; and when all 16 cells pass the visibility test, 16 tiles are
\* emitted whose footprints partition [-size/2, size/2]^2.
C19_NoGapsNoOverlaps ==
    SelectTilesReturned =>
        LET fp == [i \in DOMAIN mVisibleTiles |-> Footprint(mVisibleTiles[i])]
            sq == [c \in GridCells |-> CellSquare(c[1], c[2])]
        IN  /\ \A c \in GridCells :
                  /\ Cardinality(TilesOfCell(c[1], c[2])) <= 1
                  /\ \A i \in TilesOfCell(c[1], c[2]) :
                        /\ mVisibleTiles[i].Level = selCellLOD[c[2]][c[1]]
                        /\ fp[i] = sq[c]
            /\ \A i \in DOMAIN mVisibleTiles :
                  Cardinality({c \in GridCells : fp[i] = sq[c]}) = 1
            /\ \A i, j \in DOMAIN mVisibleTiles :
                  i # j => fp[i] # fp[j] /\ InteriorsDisjoint(fp[i], fp[j])
            /\ AllCellsVisible =>
                  /\ Len(mVisibleTiles) = NumCells
                  /\ \A i \in DOMAIN mVisibleTiles :
                        /\ GridLine(0) <= fp[i].x0
                        /\ fp[i].x1 <= GridLine(GRID_SIZE)
                        /\ GridLine(0) <= fp[i].y0
                        /\ fp[i].y1 <= GridLine(GRID_SIZE)
                  /\ FootprintArea(mVisibleTiles) = mTerrainSize * mTerrainSize

\* All 16 cells are visible from a camera in front of the terrain, and the 16
\* tiles cover the square.
C19_Witness ==
    /\ SelectTilesReturned
    /\ AllCellsVisible
    /\ Len(mVisibleTiles) = NumCells
    /\ FootprintArea(mVisibleTiles) = mTerrainSize * mTerrainSize

\* Some but not all cells are visible, and the tiles emitted are of all three
\* levels.
C19_WitnessLevels ==
    /\ SelectTilesReturned
    /\ ~ AllCellsVisible
    /\ \A l \in 0..2 : \E i \in DOMAIN mVisibleTiles : mVisibleTiles[i].Level = l

\* C20: in every frame the instance count DrawTerrain passes to
\* DrawIndexedInstanced is the number of records the upload loop wrote in that
\* frame, min(|mVisibleTiles|, 64), into the very buffer Draw binds for that
\* frame; record i is tile i of the list.  So the draw reads only slots written
\* in its own frame and none beyond the 64 of the buffer; a frame without a
\* draw call wrote no record.
C20_UploadAndDrawAgree ==
    FrameDrawn =>
        /\ Len(mTileInstances) = Min(Len(mVisibleTiles), InstanceCapacity)
        /\ \A i \in DOMAIN mTileInstances : mTileInstances[i] = InstanceOf(mVisibleTiles[i])
        /\ frameDraw.InstanceCount = Len(mTileInstances)
        /\ frameDraw.InstanceCount <= InstanceCapacity
        /\ frameDraw.InstanceBuffer = uploadBuffer
        /\ frameDraw.InstanceBuffer \in 0..(gNumFrameResources - 1)
        /\ frameDraw.Issued <=> mTileInstances # << >>

\* A frame that drew several tiles from instance buffer 0: the frame resource
\* index has wrapped around.
C20_Witness ==
    /\ FrameDrawn
    /\ frameDraw.Issued
    /\ frameDraw.InstanceCount >= 5
    /\ frameDraw.InstanceBuffer = 0
    /\ uploadBuffer = 0

(***************************************************************************)
(* Variant A.                                                              *)
(***************************************************************************)

\* The cooldown of the frame just taken, after its decrement (step 1).
CooldownAfterDecrement == Decremented(switchCooldown, frameDt')

LevelChanges == currentLevel' # currentLevel

\* C13: whatever the frames (distance, dt), also when the distance dithers
\* about a threshold faster than SWITCH_DELAY, two changes of the level are
\* never less than SWITCH_DELAY of elapsed time apart: a change sets
\* switchCooldown to SWITCH_DELAY, and a frame whose cooldown is still above 0
\* after the decrement evaluates no transition and keeps currentLevel.
C13_HysteresisNonOscillation ==
    /\ [](changeGap >= SWITCH_DELAY)
    /\ [][/\ LevelChanges => switchCooldown' = SWITCH_DELAY
          /\ CooldownAfterDecrement > 0 =>
                /\ currentLevel' = currentLevel
                /\ switchCooldown' = CooldownAfterDecrement]_vars

\* Two changes exactly SWITCH_DELAY apart have happened, and the frame after
\* the second, at a distance whose threshold asks for another change, was held
\* back by the cooldown.
C13_Witness ==
    /\ changeGap = SWITCH_DELAY
    /\ switchCooldown > 0
    /\ sinceSwitch > 0
    /\ NextLevel(currentLevel, frameDistance) # currentLevel

\* The transitions of a frame that evaluates them, by the level before it.
TransitionTable ==
    LET d == frameDistance'
    IN  /\ currentLevel = 0 => /\ currentLevel' = 1 <=> d < D_0to1
                               /\ currentLevel' # 2
        /\ currentLevel = 1 => /\ currentLevel' = 0 <=> d > D_1to0
                               /\ currentLevel' = 2 <=> (~ (d > D_1to0) /\ d < D_1to2)
        /\ currentLevel = 2 => /\ currentLevel' = 1 <=> d > D_2to1
                               /\ currentLevel' # 0

ThresholdsOrdered == D_1to2 < D_2to1 /\ D_2to1 < D_0to1 /\ D_0to1 < D_1to0

\* A level is not left in a frame of the very distance at which it was entered.
NotLeftWhereEntered == LevelChanges => frameDistance' # enteredAt

\* A level is not left, in a frame of the very distance at which it was
\* entered, for the level it was entered from.
NotReturnedWhereEntered ==
    (LevelChanges /\ frameDistance' = enteredAt) => currentLevel' # enteredFrom

\* C14 as stated: from currentLevel = 2, a frame with no cooldown left changes
\* the level by the table only; the level stays in {0,1,2} and moves one step
\* at most; and with the thresholds ordered, a level entered at some distance
\* is not left again at that same distance.
C14_AsStated ==
    /\ [](currentLevel \in {0, 1, 2} /\ ThresholdsOrdered)
    /\ [][/\ CooldownAfterDecrement = 0 => TransitionTable
          /\ Abs(currentLevel' - currentLevel) <= 1
          /\ NotLeftWhereEntered]_vars

\* C14, amended: the same, but a level entered at some distance is not left at
\* that same distance for the level it came from; it may be left there for the
\* next level in the same direction.
C14_TransitionTable ==
    /\ [](currentLevel \in {0, 1, 2} /\ ThresholdsOrdered)
    /\ [][/\ CooldownAfterDecrement = 0 => TransitionTable
          /\ Abs(currentLevel' - currentLevel) <= 1
          /\ NotReturnedWhereEntered]_vars

\* Level 0 has been entered from level 1 at the very distance at which level 1
\* had been entered from level 2: the cooldown had run out in between.
C14_Witness ==
    /\ currentLevel = 0
    /\ enteredFrom = 1
    /\ enteredAt = D_1to0 + 1
    /\ enteredFromAt = enteredAt
    /\ changeGap = SWITCH_DELAY
    /\ sinceSwitch = 0

(***************************************************************************)
(* Variant B2.                                                             *)
(***************************************************************************)

SseCalled == sseFrustum # << >>

\* The error of a node in the last call, and whether the node would be
\* accepted there: error <= mMaxScreenSpaceError.
SseError(node) == CalculateScreenSpaceError(node, mScreenHeight, sseCameraPos)
SseAccepted(node) == ~ ErrorExceedsMax(SseError(node))

\* Between two calls on one tree, the camera has moved away from the node.
MovedAway(node) == NodeDistSq(node, sseCameraPos') > NodeDistSq(node, sseCameraPos)

\* C15 as stated: for a fixed node the error is strictly decreasing as the
\* distance from the camera to the centre of its bounds increases, and a node
\* accepted at distance D is accepted at every greater distance.
C15_AsStated ==
    [][(SseCalled /\ SseCalled') =>
          \A node \in QuadTreeNodes :
             LET e == SseError(node)
                 f == SseError(node)'
             IN  MovedAway(node) => /\ ErrorLess(f, e)
                                    /\ ~ ErrorExceedsMax(e) => ~ ErrorExceedsMax(f)]_vars

\* C15, amended: the error never increases with the distance and is strictly
\* decreasing once the distance is 1.0 or more (below that the clamp keeps it
\* constant); a node accepted at distance D is accepted at every greater
\* distance.
C15_ErrorMonotone ==
    [][(SseCalled /\ SseCalled') =>
          \A node \in QuadTreeNodes :
             LET e == SseError(node)
                 f == SseError(node)'
             IN  MovedAway(node) =>
                    /\ ~ ErrorLess(e, f)
                    /\ NodeDistSq(node, sseCameraPos) >= 1 => ErrorLess(f, e)
                    /\ ~ ErrorExceedsMax(e) => ~ ErrorExceedsMax(f)]_vars

\* The camera stands one unit from the centre of the root, inside the clamp,
\* after a call from that centre itself; and in another case the root is
\* accepted from afar.
C15_Witness ==
    /\ SseCalled
    /\ NodeDistSq(RootNode, sseCameraPos) = 1
    /\ SseError(RootNode).DistSq = 1
    /\ ErrorExceedsMax(SseError(RootNode))

\* A node that is not a leaf is accepted and emitted, next to nodes that were
\* refined into their children.
C15_WitnessAccepted ==
    /\ SseCalled
    /\ \E i \in DOMAIN sseTiles : sseTiles[i].Level = 1
    /\ \E i \in DOMAIN sseTiles : sseTiles[i].Level = 2

\* The corners of the bounds of a node, and the frustum's verdict on them: the
\* node is culled when its box lies wholly outside one plane.
NodeCorners(node) ==
    {<<x, y, z>> : x \in {NodeMinX(node), NodeMinX(node) + SseNodeSize(node)},
                   y \in {- CullPadding, TerrainHeight + CullPadding},
                   z \in {NodeMinZ(node), NodeMinZ(node) + SseNodeSize(node)}}
Culled(node) ==
    \E k \in DOMAIN sseFrustum : \A p \in NodeCorners(node) : PointOutside(sseFrustum[k], p)

ParentNode(node) == <<node[1] - 1, node[2] \div 2, node[3] \div 2>>

\* The nodes of the subtree of a node, the node itself included.
Subtree(node) ==
    {m \in QuadTreeNodes :
        \/ m = node
        \/ m[1] > node[1] /\ ParentNode(m) = node
        \/ m[1] > node[1] + 1 /\ ParentNode(ParentNode(m)) = node}

\* The traversal from the root comes to a node when it has refined each of the
\* node's ancestors: none was culled, each had an error above the budget.
Refinable(node) == ~ Culled(node) /\ ~ SseAccepted(node) /\ HasChildren(node)
Visited(node) ==
    \A a \in QuadTreeNodes : (a # node /\ node \in Subtree(a)) => Refinable(a)

TilesOfNode(node) ==
    {i \in DOMAIN sseTiles : /\ sseTiles[i].Level = node[1]
                             /\ sseTiles[i].NodeX = node[2]
                             /\ sseTiles[i].NodeZ = node[3]}

\* C16: the traversal from the root emits exactly one tile for a node it
\* visits if and only if the node is not culled and its error is within the
\* budget or it has no children, and no tile for it otherwise; it goes on to
\* all four children exactly when the node is not culled, its error exceeds
\* the budget and it has children; a culled node contributes no tile, neither
\* its own nor one of a descendant; and the nodes of level 2 are the leaves.
C16_SelectionRule ==
    SseCalled =>
       /\ \A node \in QuadTreeNodes :
             /\ Cardinality(TilesOfNode(node))
                   = IF Visited(node) /\ ~ Culled(node)
                        /\ (SseAccepted(node) \/ ~ HasChildren(node))
                     THEN 1 ELSE 0
             /\ (Visited(node) /\ Refinable(node)) =>
                   /\ TilesOfNode(node) = {}
                   /\ \A k \in 1..4 :
                         /\ Visited(Children(node)[k])
                         /\ (~ Culled(Children(node)[k]))
                               => \E m \in Subtree(Children(node)[k]) : TilesOfNode(m) # {}
             /\ (Visited(node) /\ ~ Refinable(node)) =>
                   \A m \in Subtree(node) \ {node} : ~ Visited(m) /\ TilesOfNode(m) = {}
             /\ Culled(node) => \A m \in Subtree(node) : TilesOfNode(m) = {}
             /\ HasChildren(node) <=> node[1] < 2
       /\ \A i \in DOMAIN sseTiles :
             /\ sseTiles[i].Level \in 0..2
             /\ sseTiles[i] = NodeTile(<<sseTiles[i].Level, sseTiles[i].NodeX, sseTiles[i].NodeZ>>)

\* In one call a node of level 1 is refined into leaves, another is accepted
\* and emitted whole, and a third is culled with its subtree.
C16_Witness ==
    /\ SseCalled
    /\ \E node \in NodesOfLevel(1) : Visited(node) /\ Refinable(node)
    /\ \E node \in NodesOfLevel(1) : Visited(node) /\ TilesOfNode(node) # {}
    /\ \E node \in NodesOfLevel(1) : Visited(node) /\ Culled(node)
    /\ \E node \in NodesOfLevel(2) : Visited(node) /\ TilesOfNode(node) # {}

\* The nodes the last call emitted a tile for, and the footprint of a tile.
EmittedNodes == {<<sseTiles[i].Level, sseTiles[i].NodeX, sseTiles[i].NodeZ>> : i \in DOMAIN sseTiles}
SseFootprint(t) ==
    [x0 |-> t.WorldMinX, x1 |-> t.WorldMinX + t.WorldSize,
     y0 |-> t.WorldMinZ, y1 |-> t.WorldMinZ + t.WorldSize]
NothingCulled == \A node \in QuadTreeNodes : Visited(node) => ~ Culled(node)

\* C24: in every result of the traversal no emitted node is an ancestor or a
\* descendant of another emitted node and none is emitted twice, so the
\* footprints of the emitted tiles do not overlap; when no visited node is
\* culled, the footprints lie in the root's footprint and their areas add up
\* to its area: they partition it; the traversal visits nodes of the 21-node
\* tree only and emits at most 16 tiles.
C24_OutputIsAntichain ==
    SseCalled =>
       /\ EmittedNodes \subseteq QuadTreeNodes
       /\ Cardinality(EmittedNodes) = Len(sseTiles)
       /\ \A a \in EmittedNodes : \A b \in EmittedNodes : a # b => a \notin Subtree(b)
       /\ \A i \in DOMAIN sseTiles : \A j \in DOMAIN sseTiles :
             i # j => InteriorsDisjoint(SseFootprint(sseTiles[i]), SseFootprint(sseTiles[j]))
       /\ NothingCulled =>
             /\ \A i \in DOMAIN sseTiles :
                   /\ - (mTerrainSizeDefault \div 2) <= SseFootprint(sseTiles[i]).x0
                   /\ SseFootprint(sseTiles[i]).x1 <= mTerrainSizeDefault \div 2
                   /\ - (mTerrainSizeDefault \div 2) <= SseFootprint(sseTiles[i]).y0
                   /\ SseFootprint(sseTiles[i]).y1 <= mTerrainSizeDefault \div 2
             /\ FootprintArea([i \in DOMAIN sseTiles |->
                                  [World |-> TileWorld(sseTiles[i].WorldSize,
                                                       sseTiles[i].WorldMinX,
                                                       sseTiles[i].WorldMinZ)]])
                   = mTerrainSizeDefault * mTerrainSizeDefault
       /\ Cardinality({node \in QuadTreeNodes : Visited(node)}) <= 21
       /\ Cardinality(QuadTreeNodes) = 21
       /\ Len(sseTiles) <= 16

\* Nothing is culled and the tiles of the result are of two levels: a node of
\* level 1 is emitted whole next to the four leaves of another.
C24_Witness ==
    /\ SseCalled
    /\ NothingCulled
    /\ \E a \in EmittedNodes : a[1] = 1
    /\ \E b \in EmittedNodes : b[1] = 2
    /\ Len(sseTiles) > 4

(***************************************************************************)
(* The patch mesh.                                                         *)
(***************************************************************************)

GeometryBuilt == geoPhase = "built"

\* Vertex i of the vertex buffer and entry idx of the index buffer, from 0.
Vertex(i) == mGeoVertices[i + 1]
Index(idx) == mGeoIndices[idx + 1]

MainVertexIds == 0..(MainVertexCount(mPatchGridSize) - 1)
SkirtVertexIds == MainVertexCount(mPatchGridSize)..(Len(mGeoVertices) - 1)

\* The main-grid vertices on an edge of the patch: 0 is z = 0, 1 is z = 1,
\* 2 is x = 0, 3 is x = 1.
OnEdge(v, edge) ==
    CASE edge = 0 -> v.Pos[3] = 0
      [] edge = 1 -> v.Pos[3] = FixedOne
      [] edge = 2 -> v.Pos[1] = 0
      [] OTHER -> v.Pos[1] = FixedOne
EdgeVertexIds(edge) == {i \in MainVertexIds : OnEdge(Vertex(i), edge)}

\* The skirt vertex that belongs to a boundary vertex: same X, Z and UV, and
\* the sentinel -1 for Y.
SkirtOf(v) == TerrainVertex(v.Pos[1], - FixedOne, v.Pos[3], v.TexC[1], v.TexC[2])

\* C17: in the mesh BuildTerrainGeometry builds for the grid of N x N, each of
\* the four edges has N main-grid vertices, and for each of them there is a
\* skirt vertex with the same X, Z and UV and with Y = -1; every main-grid
\* vertex has Y = 0, and every vertex after the main grid is such a skirt
\* vertex of a boundary vertex.
C17_SkirtSeamCoverage ==
    GeometryBuilt =>
        LET skirts == {Vertex(s) : s \in SkirtVertexIds}
            boundary == {Vertex(i) : i \in UNION {EdgeVertexIds(edge) : edge \in 0..3}}
        IN  /\ Len(mGeoVertices) = VertexCount(mPatchGridSize)
            /\ \A i \in MainVertexIds : Vertex(i).Pos[2] = 0
            /\ \A edge \in 0..3 :
                  /\ Cardinality(EdgeVertexIds(edge)) = mPatchGridSize
                  /\ \A i \in EdgeVertexIds(edge) : SkirtOf(Vertex(i)) \in skirts
            /\ \A v \in skirts : v.Pos[2] = - FixedOne /\ v \in {SkirtOf(b) : b \in boundary}

\* The mesh is built; the corner (0, 0, 0) of the main grid lies on two edges
\* and has a skirt vertex from each of the two skirts.
C17_Witness ==
    /\ GeometryBuilt
    /\ Cardinality({i \in MainVertexIds : OnEdge(Vertex(i), 0) /\ OnEdge(Vertex(i), 2)}) = 1
    /\ Cardinality({s \in SkirtVertexIds :
                        Vertex(s) = TerrainVertex(0, - FixedOne, 0, 0, 0)}) = 2

\* The normal of a triangle of three vertices, by the order of its indices:
\* (v1 - v0) x (v2 - v0).
Cross(a, b) ==
    <<a[2] * b[3] - a[3] * b[2], a[3] * b[1] - a[1] * b[3], a[1] * b[2] - a[2] * b[1]>>
Minus(p, q) == <<p[1] - q[1], p[2] - q[2], p[3] - q[3]>>
FaceNormal(i0, i1, i2) ==
    Cross(Minus(Vertex(i1).Pos, Vertex(i0).Pos), Minus(Vertex(i2).Pos, Vertex(i0).Pos))

\* A normal points along an axis, in the direction of sign.
Along(n, axis, sign) ==
    /\ \A k \in 1..3 : k # axis => n[k] = 0
    /\ n[axis] * sign > 0

\* The outward direction of an edge: -Z, +Z, -X, +X.
OutwardAxis(edge) == IF edge < 2 THEN 3 ELSE 1
OutwardSign(edge) == IF edge = 0 \/ edge = 2 THEN -1 ELSE 1

NumMainQuads == (mPatchGridSize - 1) * (mPatchGridSize - 1)
NumSkirtQuads == 4 * (mPatchGridSize - 1)

\* The six indices of quad number q of the index buffer.
QuadIndices(q) == [j \in 1..6 |-> Index(6 * q + j - 1)]

\* A skirt quad joins two adjacent boundary vertices of the edge to their own
\* two skirt vertices, and both of its triangles face out of the patch.
SkirtQuadOutward(six, edge) ==
    LET ids == {six[j] : j \in 1..6}
        main == {i \in ids : i \in MainVertexIds}
        skirt == {i \in ids : i \in SkirtVertexIds}
    IN  /\ Cardinality(main) = 2
        /\ Cardinality(skirt) = 2
        /\ \A i \in main : OnEdge(Vertex(i), edge)
        /\ \E a, b \in main :
              Abs(Vertex(a).Pos[1] - Vertex(b).Pos[1]) + Abs(Vertex(a).Pos[3] - Vertex(b).Pos[3])
                 = Step(mPatchGridSize)
        /\ {Vertex(i) : i \in skirt} = {SkirtOf(Vertex(i)) : i \in main}
        /\ {six[1], six[2], six[3]} # {six[4], six[5], six[6]}
        /\ Along(FaceNormal(six[1], six[2], six[3]), OutwardAxis(edge), OutwardSign(edge))
        /\ Along(FaceNormal(six[4], six[5], six[6]), OutwardAxis(edge), OutwardSign(edge))

\* C18: every triangle of the main grid faces +Y by the order of its indices;
\* by the same rule, every skirt quad joins two adjacent boundary vertices of
\* one edge to the two skirt vertices of exactly those vertices, and both of
\* its triangles face away from the patch: -Z on the edge z = 0, +Z on z = 1,
\* -X on x = 0, +X on x = 1.
C18_SkirtWinding ==
    GeometryBuilt =>
        /\ Len(mGeoIndices) = 6 * (NumMainQuads + NumSkirtQuads)
        /\ \A q \in 0..(NumMainQuads - 1) :
              LET six == QuadIndices(q)
              IN  /\ Along(FaceNormal(six[1], six[2], six[3]), 2, 1)
                  /\ Along(FaceNormal(six[4], six[5], six[6]), 2, 1)
        /\ \A q \in NumMainQuads..(NumMainQuads + NumSkirtQuads - 1) :
              \E edge \in 0..3 : SkirtQuadOutward(QuadIndices(q), edge)
        /\ \A edge \in 0..3 :
              Cardinality({q \in NumMainQuads..(NumMainQuads + NumSkirtQuads - 1) :
                              SkirtQuadOutward(QuadIndices(q), edge)}) = mPatchGridSize - 1

\* The mesh is built, and the last quad of the index buffer is a skirt quad of
\* the edge x = 1 whose first triangle faces +X.
C18_Witness ==
    /\ GeometryBuilt
    /\ Len(mGeoIndices) = PatchIndexCount
    /\ SkirtQuadOutward(QuadIndices(NumMainQuads + NumSkirtQuads - 1), 3)
    /\ FaceNormal(Index(PatchIndexCount - 6), Index(PatchIndexCount - 5),
                  Index(PatchIndexCount - 4))[1] > 0

\* The vertex ids of a grid of gridSize: a main-grid vertex on an edge (0 is
\* z = 0, 1 is z = gridSize - 1, 2 is x = 0, 3 is x = gridSize - 1), and the skirt
\* vertices of an edge.
BoundaryIdOfEdge(gridSize, i, edge) ==
    /\ 0 <= i /\ i < gridSize * gridSize
    /\ CASE edge = 0 -> i \div gridSize = 0
         [] edge = 1 -> i \div gridSize = gridSize - 1
         [] edge = 2 -> i % gridSize = 0
         [] OTHER -> i % gridSize = gridSize - 1
SkirtIdOfEdge(gridSize, i, edge) ==
    /\ gridSize * gridSize + edge * gridSize <= i
    /\ i < gridSize * gridSize + (edge + 1) * gridSize

\* Quad q of the main grid is two triangles on the four corners of grid cell
\* (q % (gridSize - 1), q \div (gridSize - 1)), all of them main-grid vertices.
MainQuadValid(gridSize, six, q) ==
    LET x == q % (gridSize - 1)
        z == q \div (gridSize - 1)
        corners == {z * gridSize + x, z * gridSize + x + 1,
                    (z + 1) * gridSize + x, (z + 1) * gridSize + x + 1}
        first == {six[1], six[2], six[3]}
        second == {six[4], six[5], six[6]}
    IN  /\ Cardinality(first) = 3 /\ Cardinality(second) = 3
        /\ first # second
        /\ first \cup second = corners
        /\ \A i \in corners : i < gridSize * gridSize

\* A skirt quad is two triangles on boundary vertices and skirt vertices of
\* one edge.
SkirtQuadValid(gridSize, six) ==
    \E edge \in 0..3 :
       /\ \A j \in 1..6 : \/ BoundaryIdOfEdge(gridSize, six[j], edge)
                          \/ SkirtIdOfEdge(gridSize, six[j], edge)
       /\ Cardinality({six[1], six[2], six[3]}) = 3
       /\ Cardinality({six[4], six[5], six[6]}) = 3

\* An index buffer for the grid of gridSize.
IndicesValid(gridSize, indices) ==
    LET mainQuads == (gridSize - 1) * (gridSize - 1)
        skirtQuads == 4 * (gridSize - 1)
        six(q) == [j \in 1..6 |-> indices[6 * q + j]]
    IN  /\ Len(indices) = 6 * mainQuads + 6 * skirtQuads
        /\ \A k \in DOMAIN indices :
              0 <= indices[k] /\ indices[k] < gridSize * gridSize + 4 * gridSize
        /\ \A q \in 0..(mainQuads - 1) : MainQuadValid(gridSize, six(q), q)
        /\ \A q \in mainQuads..(mainQuads + skirtQuads - 1) : SkirtQuadValid(gridSize, six(q))

\* The small grids the index loops are also run for.
MaxSmallGrid == 5

\* C22: BuildTerrainGeometry creates N*N + 4*N vertices and 6*(N-1)^2 + 24*(N-1)
\* indices; the running write position of the index loops ends exactly at the
\* index count, so every slot is written once; every index is below the vertex
\* count, the quads of the main grid are two triangles each on the four
\* main-grid corners of their cell, and every skirt triangle joins boundary
\* vertices and skirt vertices of one edge.  The buffers the program uploads
\* (N = 65) are checked, and what the same loops give for the grids of 2 to
\* MaxSmallGrid.
C22_MeshIndexValidity ==
    /\ GeometryBuilt =>
          /\ Len(mGeoVertices) = mPatchGridSize * mPatchGridSize + 4 * mPatchGridSize
          /\ Len(mGeoIndices) = 6 * (mPatchGridSize - 1) * (mPatchGridSize - 1)
                                   + 24 * (mPatchGridSize - 1)
          /\ geoIdx = Len(mGeoIndices)
          /\ IndicesValid(mPatchGridSize, mGeoIndices)
    /\ geoPhase = "upload" =>
          \A gridSize \in 2..MaxSmallGrid :
             /\ VertexCount(gridSize) = gridSize * gridSize + 4 * gridSize
             /\ IndexCount(gridSize) = 6 * (gridSize - 1) * (gridSize - 1) + 24 * (gridSize - 1)
             /\ IndicesValid(gridSize,
                             [i \in 1..IndexCount(gridSize) |-> IndexAt(gridSize, i - 1)])

\* The mesh of the grid of 65 is built: 4485 vertices and 26112 indices, the
\* first quad is cell (0, 0) of the main grid and the last index is the
\* boundary vertex of the corner (1, 1), next to the last skirt vertex.
C22_Witness ==
    /\ GeometryBuilt
    /\ Len(mGeoVertices) = 4485
    /\ geoIdx = 26112
    /\ QuadIndices(0) = <<0, 65, 1, 1, 65, 66>>
    /\ Index(26111) = 4224
    /\ Index(26109) = 4484

\* The cell a tile was emitted for, read from its texture addressing: the node
\* at level 2, the node and the quarter of its texture at level 1, the
\* sixteenth of the one texture at level 0.
CellOfTile(t) ==
    IF t.Level = 2 THEN <<t.NodeX, t.NodeZ>>
    ELSE IF t.Level = 1
         THEN <<2 * t.NodeX + t.UVOffset[1] \div (UVOne \div 2),
                2 * t.NodeZ + t.UVOffset[2] \div (UVOne \div 2)>>
    ELSE <<t.UVOffset[1] \div (UVOne \div 4), t.UVOffset[2] \div (UVOne \div 4)>>

\* The point a stored world matrix takes a point of the patch to: the matrix is
\* stored transposed, so it multiplies the column (x, y, z, 1).
TransformPoint(m, p) ==
    [i \in 1..4 |-> m[i][1] * p[1] + m[i][2] * p[2] + m[i][3] * p[3] + m[i][4]]

\* C23: every tile SelectTiles emits for a cell (cx, cz), at any level, has
\* WorldSize = terrainSize / 4 and its min corner at (-terrainSize/2 + cx *
\* terrainSize/4, -terrainSize/2 + cz * terrainSize/4); its world matrix is the
\* scale by WorldSize in x and z (1 in y) followed by the translation to that
\* corner, without rotation: the corners of the unit patch go to the corners of
\* the cell's footprint, and heights are kept.
C23_TilePlacement ==
    SelectTilesReturned =>
       \A i \in DOMAIN mVisibleTiles :
          LET t == mVisibleTiles[i]
              c == CellOfTile(t)
              minX == - (mTerrainSize \div 2) + c[1] * (mTerrainSize \div 4)
              minZ == - (mTerrainSize \div 2) + c[2] * (mTerrainSize \div 4)
          IN  /\ c \in GridCells
              /\ 4 * t.WorldSize = mTerrainSize
              /\ t.WorldMinX = minX
              /\ t.WorldMinZ = minZ
              /\ t.World = << <<t.WorldSize, 0, 0, minX>>, <<0, 1, 0, 0>>,
                              <<0, 0, t.WorldSize, minZ>>, <<0, 0, 0, 1>> >>
              /\ \A x \in {0, 1} : \A y \in {-1, 0, 1} : \A z \in {0, 1} :
                    TransformPoint(t.World, <<x, y, z>>)
                       = <<minX + x * (mTerrainSize \div 4), y,
                           minZ + z * (mTerrainSize \div 4), 1>>

\* Tiles of all three levels are emitted, among them a level-1 tile of cell
\* (3, 1) and a level-0 tile off the diagonal of the grid.
C23_Witness ==
    /\ SelectTilesReturned
    /\ \A l \in 0..2 : \E i \in DOMAIN mVisibleTiles : mVisibleTiles[i].Level = l
    /\ \E i \in DOMAIN mVisibleTiles :
          mVisibleTiles[i].Level = 0 /\ CellOfTile(mVisibleTiles[i])[1] # CellOfTile(mVisibleTiles[i])[2]
    /\ \E i \in DOMAIN mVisibleTiles :
          mVisibleTiles[i].Level # 2 /\ mVisibleTiles[i].WorldMinX > 0 /\ mVisibleTiles[i].WorldMinZ < 0

\* The place of a tile in the order of the list: the finer level first, then
\* the row cz, then the column cx of its footprint.
OrderRank(t) ==
    (2 - t.Level) * NumCells
       + ((t.WorldMinZ + mTerrainSize \div 2) \div t.WorldSize) * GRID_SIZE
       + (t.WorldMinX + mTerrainSize \div 2) \div t.WorldSize

\* C25: the list SelectTiles produces holds all level-2 tiles first, then all
\* level-1 tiles, then all level-0 tiles, and within a level the tiles are in
\* row-major order of their cells (cz ascending, then cx ascending); so a
\* prefix of the list drops no tile finer than one it keeps.
C25_OutputOrder ==
    SelectTilesReturned =>
       /\ \A i \in DOMAIN mVisibleTiles : \A j \in DOMAIN mVisibleTiles :
             i < j => OrderRank(mVisibleTiles[i]) < OrderRank(mVisibleTiles[j])
       /\ \A n \in 0..Len(mVisibleTiles) :
             \A i \in 1..n : \A j \in (n + 1)..Len(mVisibleTiles) :
                mVisibleTiles[i].Level >= mVisibleTiles[j].Level

\* A list with tiles of all three levels, at least two of each, where a finer
\* tile lies in a later row of the grid than a coarser tile that follows it.
C25_Witness ==
    /\ SelectTilesReturned
    /\ \A l \in 0..2 :
          Cardinality({i \in DOMAIN mVisibleTiles : mVisibleTiles[i].Level = l}) >= 2
    /\ \E i \in DOMAIN mVisibleTiles : \E j \in DOMAIN mVisibleTiles :
          /\ i < j
          /\ mVisibleTiles[i].Level > mVisibleTiles[j].Level
          /\ mVisibleTiles[i].WorldMinZ > mVisibleTiles[j].WorldMinZ

\* The camera of the last call lies inside or on the boundary of the footprint
\* of cell (cx, cz).
CameraInCell(cx, cz) ==
    /\ GridLine(cx) <= selCameraPos[1] /\ selCameraPos[1] <= GridLine(cx + 1)
    /\ GridLine(cz) <= selCameraPos[3] /\ selCameraPos[3] <= GridLine(cz + 1)

\* C26: DistanceToBox is 0 exactly when the camera's XZ position lies inside
\* or on the boundary of the cell and is positive otherwise; so every cell
\* whose XZ extent holds the camera gets level 2, for either terrain size.
C26_CameraCellIsFinest ==
    SelectTilesReturned =>
       \A c \in GridCells :
          LET dist == DistanceToBox(selCameraPos[1], selCameraPos[3],
                                    CellMinX(Tree, c[1]), CellMinZ(Tree, c[2]),
                                    CellMaxX(Tree, c[1]), CellMaxZ(Tree, c[2]))
          IN  /\ dist = 0 <=> CameraInCell(c[1], c[2])
              /\ ~ CameraInCell(c[1], c[2]) => dist > 0
              /\ CameraInCell(c[1], c[2]) =>
                    /\ selCellLOD[c[2]][c[1]] = 2
                    /\ \A i \in TilesOfCell(c[1], c[2]) : mVisibleTiles[i].Level = 2

\* The camera stands on the line between two cells: both hold it and both are
\* level 2, while another cell, which it is outside of, is coarser.
C26_Witness ==
    /\ SelectTilesReturned
    /\ \E a \in GridCells : \E b \in GridCells :
          /\ a # b
          /\ CameraInCell(a[1], a[2]) /\ CameraInCell(b[1], b[2])
          /\ selCellLOD[a[2]][a[1]] = 2 /\ selCellLOD[b[2]][b[1]] = 2
    /\ \E c \in GridCells : ~ CameraInCell(c[1], c[2]) /\ selCellLOD[c[2]][c[1]] < 2

\* The textures whose file failed to load: stored with a null resource.
FailedTextures == {n \in DOMAIN mTextures : mTextures[n].Resource = "null"}

\* The heap slots of the three texture tables that hold a view.
WrittenTextureSlots == {h \in 0..(3 * gTotalTileTextures - 1) : srvHeap[h] # Unwritten}

\* C30: a texture file that fails to load changes no address: the texture is
\* still stored (with a null resource) and its name still appended to the list
\* of its channel, so each list has its 21 names in index order; the heap slot
\* of a failed texture is passed over and stays unwritten; every other texture
\* has its view at slot 21*c + index(level, x, z), and the sculpt map's SRV and
\* UAV are at slots 63 and 64.
C30_FailedLoadKeepsSlots ==
    /\ Loaded =>
          \A c \in 0..2 :
             /\ Len(ChannelNames(c)) = gTotalTileTextures
             /\ \A k \in 0..(gTotalTileTextures - 1) :
                   /\ ChannelNames(c)[k + 1] = TexName(ChannelPrefix(c), k)
                   /\ TexName(ChannelPrefix(c), k) \in DOMAIN mTextures
    /\ texPhase = "heapsBuilt" =>
          /\ \A c \in 0..2 : \A n \in ValidNodes :
                LET name == TexName(ChannelPrefix(c), IndexOf(n))
                    slot == 21 * c + IndexOf(n)
                IN  IF name \in FailedTextures
                    THEN srvHeap[slot] = Unwritten
                    ELSE srvHeap[slot] = [View |-> "SRV", Resource |-> ChannelPath(c, n)]
          /\ Cardinality(WrittenTextureSlots) + Cardinality(FailedTextures)
                = 3 * gTotalTileTextures
          /\ mSculptMapSrvIndex = 63
          /\ mSculptMapUavIndex = 64
          /\ srvHeap[63] = [View |-> "SRV", Resource |-> "mSculptMap"]
          /\ srvHeap[64] = [View |-> "UAV", Resource |-> "mSculptMap"]

\* The heap is built after the height file of the first level-2 tile failed to
\* load: its slot 5 is unwritten, and the slots next to it hold the views of
\* their own files.
C30_Witness ==
    /\ texPhase = "heapsBuilt"
    /\ FailedTextures = {TexName("h", 5)}
    /\ srvHeap[5] = Unwritten
    /\ srvHeap[4] = [View |-> "SRV", Resource |-> GetHeightMapPath(1, 1, 1)]
    /\ srvHeap[6] = [View |-> "SRV", Resource |-> GetHeightMapPath(2, 1, 0)]
    /\ srvHeap[63].Resource = "mSculptMap"

====
